---- MODULE Spec2Model ----
(***************************************************************************)
(* Model of the schema diff engine of the SQL migration connector          *)
(* (sql_schema_differ.rs): calculate_steps and the per-entity helpers it    *)
(* assembles into the ordered list of migration steps.                      *)
(*                                                                          *)
(* Positions are 1-based here (TLA+ sequences); the Rust code is 0-based.   *)
(* A snapshot is [tables |-> Seq(Table), enums |-> Seq(Enum)].              *)
(*   Table  = [name, columns, indexes, foreign_keys, primary_key]           *)
(*   Column = [name, family, enum_name, arity, dflt]                        *)
(*            (arity: Required or Nullable; dflt: whether a default is set) *)
(*   Index  = [name, columns, unique]                                       *)
(*   FK     = [constraint_name, columns, referenced_table,                  *)
(*             referenced_columns, on_delete_action]                        *)
(*   Enum   = [name, values]                                                *)
(* primary_key is the list of primary-key column names, << >> for none.     *)
(***************************************************************************)
EXTENDS Integers, Sequences, FiniteSets, TLC

VARIABLES previous, next, flavour, pc, steps, reverse_steps, fks_match,
          graph, result_nodes, returned, field, validated

vars == <<previous, next, flavour, pc, steps, reverse_steps, fks_match,
          graph, result_nodes, returned, field, validated>>

(* The state of a QueryGraph and the outcome of the last call on it. *)
graph_vars == <<graph, result_nodes, returned>>

(* A field of the datamodel and the last @default attribute applied to it. *)
default_vars == <<field, validated>>

(* The variables that calculate_steps does not touch. *)
other_vars == <<fks_match, graph_vars, default_vars>>

(* The inputs and results of the schema differ. *)
differ_vars == <<previous, next, flavour, steps, reverse_steps, fks_match>>

(* Option::None of a constraint name / a type change. *)
None == "None"

(***************************************************************************)
(* Generic helpers for iterator chains.                                     *)
(***************************************************************************)

(* The positions 1..n that satisfy P, ascending: iter().filter(P).          *)
Filter(n, P(_)) == SelectSeq([i \in 1..n |-> i], P)

(* iter().map(f). *)
Map(s, f(_)) == [k \in 1..Len(s) |-> f(s[k])]

(* Concatenation of a sequence of sequences: flat_map / extend in a loop.   *)
RECURSIVE Flatten(_)
Flatten(ss) == IF ss = << >> THEN << >> ELSE Head(ss) \o Flatten(Tail(ss))

FlatMap(s, f(_)) == Flatten([k \in 1..Len(s) |-> f(s[k])])

(* The elements of a sequence, as a set. *)
Range(s) == {s[i] : i \in 1..Len(s)}

(* iter().next() over positions: the first one, 0 when there is none. *)
FirstOrZero(positions) == IF positions = << >> THEN 0 ELSE positions[1]

(* Option::or_else on options held as sequences of at most one element. *)
OrElse(option, alternative) == IF option # << >> THEN option ELSE alternative

(* Every sequence that enumerates the finite set S exactly once. *)
RECURSIVE Orderings(_)
Orderings(S) ==
    IF S = {} THEN {<< >>}
    ELSE UNION {{<<x>> \o o : o \in Orderings(S \ {x})} : x \in S}

(***************************************************************************)
(* DifferDatabase: the two snapshots and the flavour.                       *)
(***************************************************************************)

DifferDatabase(prev, nxt, fl) == [previous |-> prev, next |-> nxt, flavour |-> fl]

(* ASCII lower-casing of the identifiers of the model's universe. *)
Lower(name) ==
    CASE name = "A" -> "a"
      [] name = "B" -> "b"
      [] OTHER -> name

(* flavour.table_names_match: case-insensitive on flavours whose identifiers
   are lower-cased, exact otherwise. *)
table_names_match(fl, a, b) ==
    IF fl.lower_case_identifiers THEN Lower(a) = Lower(b) ELSE a = b

(* flavour.table_should_be_ignored: the flavours that keep tables of their
   own out of the diff ignore the table called B. *)
table_should_be_ignored(fl, table_name) ==
    fl.ignores_tables_of_its_own /\ table_name = "B"

(* table_is_ignored without the reserved name. *)
table_is_ignored_by_the_flavour_alone(db, table_name) ==
    table_should_be_ignored(db.flavour, table_name)

table_is_ignored(db, table_name) ==
    table_name = "_prisma_migrations" \/ table_should_be_ignored(db.flavour, table_name)

(* Positions of the tables of each snapshot that take part in the diff. *)
previous_tables(db) ==
    Filter(Len(db.previous.tables),
           LAMBDA i : ~table_is_ignored(db, db.previous.tables[i].name))

next_tables(db) ==
    Filter(Len(db.next.tables),
           LAMBDA i : ~table_is_ignored(db, db.next.tables[i].name))

(* created_tables comparing the names exactly instead of asking the flavour. *)
created_tables_by_exact_name(db) ==
    SelectSeq(next_tables(db),
        LAMBDA n : ~\E p \in Range(previous_tables(db)) :
            db.previous.tables[p].name = db.next.tables[n].name)

(* created_tables that also takes a next table for matched when a previous
   table has the same columns. *)
created_tables_unless_same_columns(db) ==
    SelectSeq(next_tables(db),
        LAMBDA n : ~\E p \in Range(previous_tables(db)) :
            \/ table_names_match(db.flavour, db.previous.tables[p].name, db.next.tables[n].name)
            \/ db.previous.tables[p].columns = db.next.tables[n].columns)

created_tables(db) ==
    SelectSeq(next_tables(db),
        LAMBDA n : ~\E p \in Range(previous_tables(db)) :
            table_names_match(db.flavour, db.previous.tables[p].name, db.next.tables[n].name))

dropped_tables(db) ==
    SelectSeq(previous_tables(db),
        LAMBDA p : ~\E n \in Range(next_tables(db)) :
            table_names_match(db.flavour, db.previous.tables[p].name, db.next.tables[n].name))

(* The first next table matching previous table p, 0 when there is none. *)
MatchingNextTable(db, p) ==
    FirstOrZero(SelectSeq(next_tables(db),
        LAMBDA n : table_names_match(db.flavour,
                       db.previous.tables[p].name, db.next.tables[n].name)))

(* table_pairs: one TableDiffer per previous table that has a match in next,
   in previous order. *)
table_pairs(db) ==
    Map(SelectSeq(previous_tables(db), LAMBDA p : MatchingNextTable(db, p) # 0),
        LAMBDA p : [db |-> db, previous |-> p, next |-> MatchingNextTable(db, p)])

PrevTable(differ) == differ.db.previous.tables[differ.previous]
NextTable(differ) == differ.db.next.tables[differ.next]

(***************************************************************************)
(* TableDiffer: the views of one matched table pair.                        *)
(***************************************************************************)

(* Position of the column called name in a table, 0 when there is none. *)
ColumnPosition(table, name) ==
    FirstOrZero(Filter(Len(table.columns), LAMBDA i : table.columns[i].name = name))

dropped_columns(differ) ==
    Filter(Len(PrevTable(differ).columns),
           LAMBDA i : ColumnPosition(NextTable(differ), PrevTable(differ).columns[i].name) = 0)

added_columns(differ) ==
    Filter(Len(NextTable(differ).columns),
           LAMBDA j : ColumnPosition(PrevTable(differ), NextTable(differ).columns[j].name) = 0)

(* One ColumnDiffer per previous column that still exists, in previous order. *)
column_pairs(differ) ==
    Map(Filter(Len(PrevTable(differ).columns),
            LAMBDA i : ColumnPosition(NextTable(differ), PrevTable(differ).columns[i].name) # 0),
        LAMBDA i : [previous |-> i,
                    next |-> ColumnPosition(NextTable(differ), PrevTable(differ).columns[i].name)])

(* The flavour's classification of a change of type family. *)
column_type_change(fl, prev_family, next_family) ==
    CASE prev_family = next_family -> None
      [] prev_family = "Uuid" /\ next_family = "Int" -> "NotCastable"
      [] prev_family = "Int" /\ next_family = "Uuid" -> "NotCastable"
      [] prev_family = "String" -> "RiskyCast"
      [] OTHER -> "SafeCast"

(* The differences of a previous column p and a next column n. *)
ColumnChanges(fl, p, n) ==
    [changes |-> (IF p.family # n.family THEN {"TypeChanged"} ELSE {})
                 \cup (IF p.arity # n.arity THEN {"Arity"} ELSE {})
                 \cup (IF p.dflt # n.dflt THEN {"Default"} ELSE {}),
     type_change |-> column_type_change(fl, p.family, n.family)]

(* ColumnDiffer::all_changes: (the set of fields that differ, the type change). *)
all_changes(differ, columns) ==
    ColumnChanges(differ.db.flavour,
                  PrevTable(differ).columns[columns.previous],
                  NextTable(differ).columns[columns.next])

differs_in_something(changes) == changes # {}

indexes_match(a, b) == a.columns = b.columns /\ a.unique = b.unique

created_indexes(differ) ==
    Filter(Len(NextTable(differ).indexes),
           LAMBDA j : ~\E i \in 1..Len(PrevTable(differ).indexes) :
               indexes_match(PrevTable(differ).indexes[i], NextTable(differ).indexes[j]))

dropped_indexes(differ) ==
    Filter(Len(PrevTable(differ).indexes),
           LAMBDA i : ~\E j \in 1..Len(NextTable(differ).indexes) :
               indexes_match(PrevTable(differ).indexes[i], NextTable(differ).indexes[j]))

(* The first next index matching previous index i, 0 when there is none. *)
MatchingNextIndex(differ, i) ==
    FirstOrZero(Filter(Len(NextTable(differ).indexes),
        LAMBDA j : indexes_match(PrevTable(differ).indexes[i], NextTable(differ).indexes[j])))

index_pairs(differ) ==
    Map(Filter(Len(PrevTable(differ).indexes), LAMBDA i : MatchingNextIndex(differ, i) # 0),
        LAMBDA i : [previous |-> i, next |-> MatchingNextIndex(differ, i)])

(* flavour.index_should_be_renamed: a matched index whose name changed. *)
index_should_be_renamed(differ, pair) ==
    PrevTable(differ).indexes[pair.previous].name # NextTable(differ).indexes[pair.next].name

(* index::index_covers_fk: some foreign key of the table constrains exactly
   the columns of the index. *)
index_covers_fk(table, index) ==
    \E k \in 1..Len(table.foreign_keys) : table.foreign_keys[k].columns = index.columns

(* Type family of the column called name in table. *)
ColumnFamily(table, name) == table.columns[ColumnPosition(table, name)].family

Min(a, b) == IF a <= b THEN a ELSE b

(* families_match without the interchangeability of Uuid and String. *)
families_match_exactly(x, y) == x = y

families_match(x, y) ==
    CASE x = "Uuid" /\ y = "String" -> TRUE
      [] x = "String" /\ y = "Uuid" -> TRUE
      [] OTHER -> x = y

(* foreign_keys_match over the foreign key pfk of table pt (previous) and
   nfk of table nt (next). interleave zips up to the shorter side. *)
foreign_keys_match(fl, pt, pfk, nt, nfk) ==
    LET references_same_table ==
            table_names_match(fl, pfk.referenced_table, nfk.referenced_table)
        references_same_column_count ==
            Len(pfk.referenced_columns) = Len(nfk.referenced_columns)
        constrains_same_column_count == Len(pfk.columns) = Len(nfk.columns)
        constrains_same_columns ==
            \A i \in 1..Min(Len(pfk.columns), Len(nfk.columns)) :
                /\ pfk.columns[i] = nfk.columns[i]
                /\ families_match(ColumnFamily(pt, pfk.columns[i]),
                                  ColumnFamily(nt, nfk.columns[i]))
        references_same_columns ==
            \A i \in 1..Min(Len(pfk.referenced_columns), Len(nfk.referenced_columns)) :
                pfk.referenced_columns[i] = nfk.referenced_columns[i]
    IN /\ references_same_table
       /\ references_same_column_count
       /\ constrains_same_column_count
       /\ constrains_same_columns
       /\ references_same_columns

created_foreign_keys(differ) ==
    Filter(Len(NextTable(differ).foreign_keys),
           LAMBDA j : ~\E i \in 1..Len(PrevTable(differ).foreign_keys) :
               foreign_keys_match(differ.db.flavour,
                                  PrevTable(differ), PrevTable(differ).foreign_keys[i],
                                  NextTable(differ), NextTable(differ).foreign_keys[j]))

dropped_foreign_keys(differ) ==
    Filter(Len(PrevTable(differ).foreign_keys),
           LAMBDA i : ~\E j \in 1..Len(NextTable(differ).foreign_keys) :
               foreign_keys_match(differ.db.flavour,
                                  PrevTable(differ), PrevTable(differ).foreign_keys[i],
                                  NextTable(differ), NextTable(differ).foreign_keys[j]))

(* The primary key of next when previous has none or a different one;
   << >> stands for Option::None. *)
created_primary_key(differ) ==
    IF NextTable(differ).primary_key # << >>
       /\ PrevTable(differ).primary_key # NextTable(differ).primary_key
    THEN NextTable(differ).primary_key ELSE << >>

dropped_primary_key(differ) ==
    IF PrevTable(differ).primary_key # << >>
       /\ PrevTable(differ).primary_key # NextTable(differ).primary_key
    THEN PrevTable(differ).primary_key ELSE << >>

is_part_of_primary_key(table, column_position) ==
    table.columns[column_position].name \in Range(table.primary_key)

(***************************************************************************)
(* Flavour decisions that read the pairing.                                 *)
(***************************************************************************)

(* flavour.should_skip_index_for_new_table: unique indexes of a new table are
   rendered inside CREATE TABLE on the flavours that say so. *)
should_skip_index_for_new_table(fl, index) ==
    fl.skips_unique_indexes_of_new_tables /\ index.unique

(* db.tables_to_redefine: on a flavour without general ALTER TABLE, the
   matched pairs whose change cannot be applied in place; a nullable column
   can be added in place, a required one cannot. *)
tables_to_redefine(db) ==
    IF db.flavour.redefines_tables
    THEN SelectSeq(table_pairs(db),
             LAMBDA differ :
                 \/ created_primary_key(differ) # << >>
                 \/ dropped_primary_key(differ) # << >>
                 \/ dropped_columns(differ) # << >>
                 \/ \E c \in Range(added_columns(differ)) :
                        NextTable(differ).columns[c].arity = "Required"
                 \/ \E columns \in Range(column_pairs(differ)) :
                        differs_in_something(all_changes(differ, columns).changes)
                 \/ created_foreign_keys(differ) # << >>
                 \/ dropped_foreign_keys(differ) # << >>)
    ELSE << >>

(***************************************************************************)
(* Enums.                                                                   *)
(***************************************************************************)

enums_match(prev_enum, next_enum) == prev_enum.name = next_enum.name

MatchingNextEnum(db, p) ==
    FirstOrZero(Filter(Len(db.next.enums),
        LAMBDA n : enums_match(db.previous.enums[p], db.next.enums[n])))

enum_pairs(db) ==
    Map(Filter(Len(db.previous.enums), LAMBDA p : MatchingNextEnum(db, p) # 0),
        LAMBDA p : [previous |-> p, next |-> MatchingNextEnum(db, p)])

created_enums(db) ==
    Filter(Len(db.next.enums),
           LAMBDA n : ~\E p \in 1..Len(db.previous.enums) :
               enums_match(db.previous.enums[p], db.next.enums[n]))

dropped_enums(db) ==
    Filter(Len(db.previous.enums),
           LAMBDA p : ~\E n \in 1..Len(db.next.enums) :
               enums_match(db.previous.enums[p], db.next.enums[n]))

(* flavour.create_enums / drop_enums / alter_enums, on a flavour with native
   enum types; a matched enum is altered when its variant list changed. *)
create_enums(db) ==
    IF db.flavour.has_enums
    THEN Map(created_enums(db), LAMBDA e : [kind |-> "CreateEnum", enum_index |-> e])
    ELSE << >>

drop_enums(db) ==
    IF db.flavour.has_enums
    THEN Map(dropped_enums(db), LAMBDA e : [kind |-> "DropEnum", enum_index |-> e])
    ELSE << >>

alter_enums(db) ==
    IF db.flavour.has_enums
    THEN Map(SelectSeq(enum_pairs(db),
                 LAMBDA e : db.previous.enums[e.previous].values # db.next.enums[e.next].values),
             LAMBDA e : [kind |-> "AlterEnum",
                         index |-> e,
                         previous_usages_as_default |-> << >>])
    ELSE << >>

column_type_is_enum(column, enum_name) ==
    column.family = "Enum" /\ column.enum_name = enum_name

(* UsesEnumAsDefault that does not ask for a default. *)
UsesEnumAsDefault_without_default(column, enum_name) == column_type_is_enum(column, enum_name)

(* Whether a column has the enum called enum_name as its type and a default. *)
UsesEnumAsDefault(column, enum_name) ==
    column_type_is_enum(column, enum_name) /\ column.dflt

(* The usages of the enum called prev_name in a dropped table t. *)
UsagesInDroppedTable(db, t, prev_name) ==
    Map(Filter(Len(db.previous.tables[t].columns),
            LAMBDA c : UsesEnumAsDefault(db.previous.tables[t].columns[c], prev_name)),
        LAMBDA c : <<<<t, c>>, << >>>>)

(* The usages in a matched pair: the dropped columns, then the column pairs. *)
UsagesInTablePair(tables, prev_name, next_name) ==
    Map(SelectSeq(dropped_columns(tables),
            LAMBDA c : UsesEnumAsDefault(PrevTable(tables).columns[c], prev_name)),
        LAMBDA c : <<<<tables.previous, c>>, << >>>>)
    \o Map(SelectSeq(column_pairs(tables),
               LAMBDA cp : UsesEnumAsDefault(PrevTable(tables).columns[cp.previous], prev_name)),
           LAMBDA cp : <<<<tables.previous, cp.previous>>,
                         IF UsesEnumAsDefault(NextTable(tables).columns[cp.next], next_name)
                         THEN <<tables.next, cp.next>> ELSE << >>>>)

(* The (column, Option<next column>) usages of one altered enum; << >> is the
   None of the second component. *)
previous_usages_as_default(db, alter_enum) ==
    FlatMap(dropped_tables(db),
        LAMBDA t : UsagesInDroppedTable(db, t, db.previous.enums[alter_enum.index.previous].name))
    \o FlatMap(table_pairs(db),
           LAMBDA tables : UsagesInTablePair(tables,
                               db.previous.enums[alter_enum.index.previous].name,
                               db.next.enums[alter_enum.index.next].name))

push_previous_usages_as_defaults_in_altered_enums(db, enum_steps) ==
    Map(enum_steps,
        LAMBDA step : [step EXCEPT
            !.previous_usages_as_default = previous_usages_as_default(db, step)])

(***************************************************************************)
(* The per-phase step builders.                                             *)
(***************************************************************************)

create_tables(db) ==
    Map(created_tables(db), LAMBDA t : [kind |-> "CreateTable", table_index |-> t])

(* The DropForeignKey steps of the named foreign keys among fks of previous
   table t. *)
DropForeignKeysOf(db, t, fks) ==
    Map(SelectSeq(fks, LAMBDA f : db.previous.tables[t].foreign_keys[f].constraint_name # None),
        LAMBDA f : [kind |-> "DropForeignKey",
                    table_index |-> t,
                    foreign_key_index |-> f,
                    table |-> db.previous.tables[t].name,
                    constraint_name |-> db.previous.tables[t].foreign_keys[f].constraint_name])

(* drop_tables: (the DropTable steps, the DropForeignKey steps of the
   dropped tables). *)
drop_tables(db) ==
    [dropped_tables |->
        Map(dropped_tables(db), LAMBDA t : [kind |-> "DropTable", table_index |-> t]),
     dropped_foreign_keys |->
        FlatMap(dropped_tables(db),
            LAMBDA t : DropForeignKeysOf(db, t,
                           [f \in 1..Len(db.previous.tables[t].foreign_keys) |-> f]))]

push_drop_foreign_keys(db, drop_foreign_keys) ==
    drop_foreign_keys
    \o FlatMap(table_pairs(db),
           LAMBDA differ : DropForeignKeysOf(db, differ.previous, dropped_foreign_keys(differ)))

push_foreign_keys_from_created_tables(db, fk_steps) ==
    fk_steps
    \o FlatMap(created_tables(db),
           LAMBDA t : [f \in 1..Len(db.next.tables[t].foreign_keys) |->
                          [kind |-> "AddForeignKey", table_index |-> t, foreign_key_index |-> f]])

push_created_foreign_keys(db, fk_steps) ==
    fk_steps
    \o FlatMap(table_pairs(db),
           LAMBDA differ :
               Map(created_foreign_keys(differ),
                   LAMBDA f : [kind |-> "AddForeignKey",
                               table_index |-> differ.next,
                               foreign_key_index |-> f]))

(* add_foreign_keys that pushes the foreign keys of the created tables on
   every flavour. *)
add_foreign_keys_of_created_tables_always(db) ==
    push_created_foreign_keys(db, push_foreign_keys_from_created_tables(db, << >>))

add_foreign_keys(db) ==
    push_created_foreign_keys(db,
        IF db.flavour.should_push_foreign_keys_from_created_tables
        THEN push_foreign_keys_from_created_tables(db, << >>)
        ELSE << >>)

drop_columns(differ) ==
    Map(dropped_columns(differ), LAMBDA c : [kind |-> "DropColumn", index |-> c])

(* add_columns that takes every next column for an added one. *)
add_columns_of_every_next_column(differ) ==
    Map([c \in 1..Len(NextTable(differ).columns) |-> c],
        LAMBDA c : [kind |-> "AddColumn", column_index |-> c])

add_columns(differ) ==
    Map(added_columns(differ), LAMBDA c : [kind |-> "AddColumn", column_index |-> c])

(* The change for a differing column pair that alters every column in place. *)
AlterColumnChange_altering_in_place(column_index, ch) ==
    [kind |-> "AlterColumn",
     column_index |-> column_index,
     changes |-> ch.changes,
     type_change |-> ch.type_change]

(* The change that alter_columns emits for a differing column pair. *)
AlterColumnChange(column_index, ch) ==
    IF ch.type_change = "NotCastable"
    THEN [kind |-> "DropAndRecreateColumn",
          column_index |-> column_index,
          changes |-> ch.changes]
    ELSE [kind |-> "AlterColumn",
          column_index |-> column_index,
          changes |-> ch.changes,
          type_change |-> ch.type_change]

(* alter_columns that emits a change for every column pair. *)
alter_columns_of_every_pair(differ) ==
    Map(column_pairs(differ), LAMBDA cp : AlterColumnChange(cp, all_changes(differ, cp)))

alter_columns(differ) ==
    Map(SelectSeq(column_pairs(differ),
            LAMBDA cp : differs_in_something(all_changes(differ, cp).changes)),
        LAMBDA cp : AlterColumnChange(cp, all_changes(differ, cp)))

(* Whether a column of the previous primary key is dropped and recreated. *)
from_recreate(differ) ==
    \E change \in Range(alter_columns(differ)) :
        /\ change.kind = "DropAndRecreateColumn"
        /\ is_part_of_primary_key(PrevTable(differ), change.column_index.previous)

(* add_primary_key that recreates the key on every flavour. *)
add_primary_key_on_every_flavour(differ) ==
    OrElse(IF created_primary_key(differ) # << >>
           THEN <<[kind |-> "AddPrimaryKey", columns |-> created_primary_key(differ)]>>
           ELSE << >>,
           IF from_recreate(differ)
           THEN <<[kind |-> "AddPrimaryKey", columns |-> PrevTable(differ).primary_key]>>
           ELSE << >>)

(* Option<TableChange> as a sequence of at most one change. A primary key
   is its list of columns, so a created key without columns is no key. *)
add_primary_key(differ) ==
    LET from_psl_change ==
            IF created_primary_key(differ) # << >>
            THEN <<[kind |-> "AddPrimaryKey", columns |-> created_primary_key(differ)]>>
            ELSE << >>
    IN IF differ.db.flavour.should_recreate_the_primary_key_on_column_recreate
       THEN OrElse(from_psl_change,
                   IF from_recreate(differ)
                   THEN <<[kind |-> "AddPrimaryKey", columns |-> PrevTable(differ).primary_key]>>
                   ELSE << >>)
       ELSE from_psl_change

drop_primary_key(differ) ==
    LET from_psl_change ==
            IF dropped_primary_key(differ) # << >> THEN <<[kind |-> "DropPrimaryKey"]>> ELSE << >>
    IN IF differ.db.flavour.should_recreate_the_primary_key_on_column_recreate
       THEN OrElse(from_psl_change,
                   IF from_recreate(differ) THEN <<[kind |-> "DropPrimaryKey"]>> ELSE << >>)
       ELSE from_psl_change

(* The change list with the added columns ahead of the dropped ones. *)
table_changes_adding_columns_first(differ) ==
    drop_primary_key(differ)
    \o add_columns(differ)
    \o drop_columns(differ)
    \o alter_columns(differ)
    \o add_primary_key(differ)

(* The ordered change list of one matched pair. *)
table_changes(differ) ==
    drop_primary_key(differ)
    \o drop_columns(differ)
    \o add_columns(differ)
    \o alter_columns(differ)
    \o add_primary_key(differ)

(* The AlterTable step of one matched pair. *)
AlterTable(differ) ==
    [kind |-> "AlterTable",
     table_index |-> [previous |-> differ.previous, next |-> differ.next],
     changes |-> table_changes(differ)]

(* alter_tables without the filter on empty change lists. *)
alter_tables_keeping_empty(db) == Map(table_pairs(db), AlterTable)

alter_tables(db) ==
    SelectSeq(Map(table_pairs(db), AlterTable), LAMBDA step : step.changes # << >>)

(* The next positions of the columns of a pair that are dropped and recreated. *)
dropped_and_recreated_column_indexes_next(tables) ==
    {columns.next : columns \in
        {columns \in Range(column_pairs(tables)) :
            all_changes(tables, columns).type_change = "NotCastable"}}

(* The CreateIndex step of index i of next table t of a matched pair. *)
CreateIndex(t, i) ==
    [kind |-> "CreateIndex", table_index |-> t, index_index |-> i,
     caused_by_create_table |-> FALSE]

(* create_indexes_of_pair that recreates the indexes over a recreated column
   on every flavour. *)
create_indexes_of_pair_recreating_always(tables) ==
    Map(created_indexes(tables), LAMBDA i : CreateIndex(tables.next, i))
    \o Map(SelectSeq(index_pairs(tables),
               LAMBDA index :
                   \E c \in Range(NextTable(tables).indexes[index.next].columns) :
                       ColumnPosition(NextTable(tables), c)
                           \in dropped_and_recreated_column_indexes_next(tables)),
           LAMBDA index : CreateIndex(tables.next, index.next))

(* The CreateIndex steps of one matched pair: the created indexes, then the
   matched indexes over a recreated column where the flavour asks for it. *)
create_indexes_of_pair(tables) ==
    Map(created_indexes(tables), LAMBDA i : CreateIndex(tables.next, i))
    \o (IF tables.db.flavour.indexes_should_be_recreated_after_column_drop
        THEN Map(SelectSeq(index_pairs(tables),
                     LAMBDA index :
                         \E c \in Range(NextTable(tables).indexes[index.next].columns) :
                             ColumnPosition(NextTable(tables), c)
                                 \in dropped_and_recreated_column_indexes_next(tables)),
                 LAMBDA index : CreateIndex(tables.next, index.next))
        ELSE << >>)

create_indexes(db) ==
    (IF db.flavour.should_create_indexes_from_created_tables
     THEN FlatMap(created_tables(db),
              LAMBDA t :
                  Map(Filter(Len(db.next.tables[t].indexes),
                          LAMBDA i : ~should_skip_index_for_new_table(
                                          db.flavour, db.next.tables[t].indexes[i])),
                      LAMBDA i : [kind |-> "CreateIndex",
                                  table_index |-> t,
                                  index_index |-> i,
                                  caused_by_create_table |-> TRUE]))
     ELSE << >>)
    \o FlatMap(table_pairs(db), create_indexes_of_pair)

(* DropIndexesOfPair that drops the indexes that cover a foreign key too. *)
DropIndexesOfPair_without_fk_skip(tables) ==
    {[kind |-> "DropIndex", table_index |-> tables.previous, index_index |-> i] :
        i \in Range(dropped_indexes(tables))}

(* The DropIndex steps of the dropped indexes of one matched pair. *)
DropIndexesOfPair(tables) ==
    {[kind |-> "DropIndex", table_index |-> tables.previous, index_index |-> i] :
        i \in {i \in Range(dropped_indexes(tables)) :
                  ~(/\ tables.db.flavour.should_skip_fk_indexes
                    /\ index_covers_fk(PrevTable(tables), PrevTable(tables).indexes[i]))}}

(* drop_indexes that drops the indexes of the dropped tables whenever the
   flavour asks for it, whether or not a table is redefined. *)
drop_indexes_set_without_redefine_check(db) ==
    UNION {DropIndexesOfPair(tables) : tables \in Range(table_pairs(db))}
    \cup (IF db.flavour.should_drop_indexes_from_dropped_tables
          THEN UNION {{[kind |-> "DropIndex", table_index |-> t, index_index |-> i] :
                          i \in 1..Len(db.previous.tables[t].indexes)} :
                      t \in Range(dropped_tables(db))}
          ELSE {})

(* The contents of the HashSet drop_indexes collects into. *)
drop_indexes_set(db) ==
    UNION {DropIndexesOfPair(tables) : tables \in Range(table_pairs(db))}
    \cup (IF tables_to_redefine(db) # << >> /\ db.flavour.should_drop_indexes_from_dropped_tables
          THEN UNION {{[kind |-> "DropIndex", table_index |-> t, index_index |-> i] :
                          i \in 1..Len(db.previous.tables[t].indexes)} :
                      t \in Range(dropped_tables(db))}
          ELSE {})

(* drop_indexes: the Vec the HashSet is collected into. A HashSet iterates in
   an order that depends on its per-instance random hash keys, so every
   ordering of its contents is a possible return value. *)
drop_indexes(db) == Orderings(drop_indexes_set(db))

(* The RedefineTable of one pair. *)
RedefineTable(differ) ==
    [table_index |-> [previous |-> differ.previous, next |-> differ.next],
     dropped_primary_key |-> drop_primary_key(differ) # << >>,
     added_columns |-> added_columns(differ),
     dropped_columns |-> dropped_columns(differ),
     column_pairs |->
         Map(column_pairs(differ),
             LAMBDA columns : <<columns,
                                all_changes(differ, columns).changes,
                                all_changes(differ, columns).type_change>>)]

redefine_tables(db) == Map(tables_to_redefine(db), RedefineTable)

alter_indexes(db) ==
    FlatMap(table_pairs(db),
        LAMBDA differ :
            Map(SelectSeq(index_pairs(differ),
                    LAMBDA pair : index_should_be_renamed(differ, pair)),
                LAMBDA pair : [table |-> [previous |-> differ.previous, next |-> differ.next],
                               index |-> pair]))

(* The changes of an AlterTable step that change the type of a column. *)
RetypedColumns(step) ==
    SelectSeq(step.changes,
        LAMBDA tc : /\ tc.kind \in {"AlterColumn", "DropAndRecreateColumn"}
                    /\ "TypeChanged" \in tc.changes)

(* The positions of the indexes of table that contain its column at
   column_position. *)
IndexesOver(table, column_position) ==
    Filter(Len(table.indexes),
           LAMBDA i : table.columns[column_position].name \in Range(table.indexes[i].columns))

(* flavour.push_index_changes_for_column_changes: on the flavours that cannot
   change the type of an indexed column, the indexes over every column whose
   type changes in an AlterTable are dropped before and created after it.
   Returns the steps pushed onto drop_indexes and create_indexes. *)
push_index_changes_for_column_changes(db, alter_table_steps) ==
    IF db.flavour.pushes_index_changes_for_column_changes
    THEN [drop_indexes |->
              FlatMap(alter_table_steps,
                  LAMBDA step :
                      FlatMap(RetypedColumns(step),
                          LAMBDA tc :
                              Map(IndexesOver(db.previous.tables[step.table_index.previous],
                                              tc.column_index.previous),
                                  LAMBDA i : [kind |-> "DropIndex",
                                              table_index |-> step.table_index.previous,
                                              index_index |-> i]))),
          create_indexes |->
              FlatMap(alter_table_steps,
                  LAMBDA step :
                      FlatMap(RetypedColumns(step),
                          LAMBDA tc :
                              Map(IndexesOver(db.next.tables[step.table_index.next],
                                              tc.column_index.next),
                                  LAMBDA i : CreateIndex(step.table_index.next, i))))]
    ELSE [drop_indexes |-> << >>, create_indexes |-> << >>]

(***************************************************************************)
(* calculate_steps. drop_indexes_vec is the Vec that drop_indexes returned  *)
(* (one element of drop_indexes(db)).                                       *)
(***************************************************************************)

(* IndexRenames that takes every flavour to be able to alter an index. *)
IndexRenames_always_altering(db, all_alter_indexes) ==
    <<Map(all_alter_indexes,
          LAMBDA pair : [kind |-> "AlterIndex", table |-> pair.table, index |-> pair.index]),
      << >>>>

(* The tail of the chain: the AlterIndex steps on the flavours that can
   alter an index, the RedefineIndex steps on the others. *)
IndexRenames(db, all_alter_indexes) ==
    <<Map(IF db.flavour.can_alter_index THEN all_alter_indexes ELSE << >>,
          LAMBDA pair : [kind |-> "AlterIndex", table |-> pair.table, index |-> pair.index]),
      Map(IF db.flavour.can_alter_index THEN << >> ELSE all_alter_indexes,
          LAMBDA pair : [kind |-> "RedefineIndex", table |-> pair.table, index |-> pair.index])>>

(* The phases once every builder and the flavour hook have run. *)
ChainedPhases(db, drop_indexes_vec, dropped, alter_table_steps, pushed, redefined) ==
    <<create_enums(db),
      push_previous_usages_as_defaults_in_altered_enums(db, alter_enums(db)),
      push_drop_foreign_keys(db, dropped.dropped_foreign_keys),
      drop_indexes_vec \o pushed.drop_indexes,
      alter_table_steps,
      dropped.dropped_tables,
      drop_enums(db),
      create_tables(db),
      IF redefined # << >> THEN <<[kind |-> "RedefineTables", tables |-> redefined]>> ELSE << >>,
      create_indexes(db) \o pushed.create_indexes,
      add_foreign_keys(db)>>
    \o IndexRenames(db, alter_indexes(db))

(* The builders' results handed to the flavour hook. *)
HookedPhases(db, drop_indexes_vec, alter_table_steps) ==
    ChainedPhases(db, drop_indexes_vec, drop_tables(db), alter_table_steps,
                  push_index_changes_for_column_changes(db, alter_table_steps),
                  redefine_tables(db))

(* The phases in the order in which calculate_steps chains them. *)
Phases(db, drop_indexes_vec) == HookedPhases(db, drop_indexes_vec, alter_tables(db))

(* s with its elements at i and j exchanged. *)
Swapped(s, i, j) == [s EXCEPT ![i] = s[j], ![j] = s[i]]

calculate_steps_create_tables_first(db, drop_indexes_vec) ==
    Flatten(Swapped(Phases(db, drop_indexes_vec), 6, 8))

calculate_steps_drop_tables_first(db, drop_indexes_vec) ==
    Flatten(Swapped(Phases(db, drop_indexes_vec), 3, 6))

calculate_steps_indexes_before_alter_tables(db, drop_indexes_vec) ==
    Flatten(Swapped(Phases(db, drop_indexes_vec), 5, 10))

calculate_steps_foreign_keys_before_indexes(db, drop_indexes_vec) ==
    Flatten(Swapped(Phases(db, drop_indexes_vec), 10, 11))

calculate_steps(db, drop_indexes_vec) == Flatten(Phases(db, drop_indexes_vec))

(***************************************************************************)
(* The universe of inputs: snapshots built from small pools of columns,     *)
(* indexes and foreign keys, and flavours given by their capability flags.  *)
(* Every snapshot is internally consistent: index, foreign-key and          *)
(* primary-key columns exist, foreign keys reference a column of their own  *)
(* table, table names are distinct and no two indexes of a table have the   *)
(* same columns and uniqueness.                                             *)
(***************************************************************************)

(* Most tables of a snapshot. *)
MaxTables == 2

Col(name, family, dflt) ==
    [name |-> name, family |-> family, enum_name |-> None, arity |-> "Required",
     dflt |-> dflt]

EnumCol(name, enum_name, dflt) ==
    [name |-> name, family |-> "Enum", enum_name |-> enum_name, arity |-> "Required",
     dflt |-> dflt]

Ix(name, columns, unique) == [name |-> name, columns |-> columns, unique |-> unique]

(* A foreign key from column x to the id of its own table. *)
Fk(constraint_name, table) ==
    [constraint_name |-> constraint_name, columns |-> <<"x">>,
     referenced_table |-> table, referenced_columns |-> <<"id">>,
     on_delete_action |-> "Cascade"]

Table(name, columns, primary_key, indexes, foreign_keys) ==
    [name |-> name, columns |-> columns, primary_key |-> primary_key,
     indexes |-> indexes, foreign_keys |-> foreign_keys]

FlagNames ==
    {"lower_case_identifiers", "ignores_tables_of_its_own", "can_alter_index",
     "should_push_foreign_keys_from_created_tables",
     "should_create_indexes_from_created_tables",
     "skips_unique_indexes_of_new_tables",
     "should_recreate_the_primary_key_on_column_recreate",
     "indexes_should_be_recreated_after_column_drop",
     "should_skip_fk_indexes", "should_drop_indexes_from_dropped_tables",
     "redefines_tables", "has_enums", "pushes_index_changes_for_column_changes"}

(* The flavours whose capabilities outside varied are all off. *)
Flavours(varied) == {[f \in FlagNames |-> f \in on] : on \in SUBSET varied}

(* The lists of at most MaxTables tables of a pool, with distinct names. *)
TableLists(pool) ==
    {ts \in UNION {[1..n -> pool] : n \in 0..MaxTables} :
        \A i, j \in 1..Len(ts) : i # j => ts[i].name # ts[j].name}

Inputs(table_lists, enum_lists, flavours) ==
    [previous : [tables : table_lists, enums : enum_lists],
     next : [tables : table_lists, enums : enum_lists],
     flavour : flavours]

(* Whole tables that are created, dropped or matched: two columns, a primary
   key, and indexes and foreign keys (named or not) that come and go. *)
WholeTablesNamed(n) ==
    {Table(n, <<Col("id", "Int", FALSE), Col("x", "Int", FALSE)>>, <<"id">>, shape[1], shape[2]) :
        shape \in {<<<< >>, << >>>>,
                   <<<<Ix("ix", <<"x">>, FALSE)>>, <<Fk("fk", n)>>>>,
                   <<<<Ix("uq", <<"id">>, TRUE)>>, <<Fk(None, n)>>>>}}

WholeTables == WholeTablesNamed("A") \cup WholeTablesNamed("B")

WholeTableInputs ==
    Inputs(TableLists(WholeTables), {<< >>},
           Flavours({"should_push_foreign_keys_from_created_tables",
                     "should_create_indexes_from_created_tables",
                     "skips_unique_indexes_of_new_tables"})
           \cup Flavours({"should_drop_indexes_from_dropped_tables",
                          "redefines_tables", "should_skip_fk_indexes"}))

(* One matched table whose columns, primary key and indexes change. *)
ColumnLists ==
    {<<Col("id", "Int", FALSE)>>,
     <<Col("id", "Uuid", FALSE)>>,
     <<Col("id", "Int", FALSE), Col("x", "Int", FALSE)>>,
     <<Col("id", "Uuid", FALSE), Col("x", "String", FALSE)>>,
     <<Col("x", "Int", TRUE), Col("id", "Int", FALSE)>>,
     <<Col("x", "Int", TRUE), Col("y", "Int", FALSE)>>}

ColumnNames(columns) == {columns[i].name : i \in 1..Len(columns)}

MatchedTables ==
    {t \in {Table("A", cs, pk, ixs, << >>) :
                cs \in ColumnLists,
                pk \in {<< >>, <<"id">>, <<"x">>},
                ixs \in {<< >>, <<Ix("ix", <<"x">>, FALSE)>>,
                         <<Ix("ix2", <<"x">>, FALSE)>>, <<Ix("uq", <<"id">>, TRUE)>>}} :
        /\ Range(t.primary_key) \subseteq ColumnNames(t.columns)
        /\ t.primary_key = <<"x">> => "id" \notin ColumnNames(t.columns)
        /\ \A i \in 1..Len(t.indexes) :
               Range(t.indexes[i].columns) \subseteq ColumnNames(t.columns)}

MatchedTableInputs ==
    Inputs({<<t>> : t \in MatchedTables}, {<< >>},
           Flavours({"should_recreate_the_primary_key_on_column_recreate",
                     "indexes_should_be_recreated_after_column_drop",
                     "redefines_tables"})
           \cup Flavours({"pushes_index_changes_for_column_changes", "can_alter_index"}))

(* Enums that are created, dropped and altered, beside a table with a column
   of an enum type. *)
EnumLists ==
    {<< >>,
     <<[name |-> "E", values |-> <<"a">>]>>,
     <<[name |-> "E", values |-> <<"a", "b">>]>>,
     <<[name |-> "F", values |-> <<"a">>], [name |-> "E", values |-> <<"a">>]>>}

EnumTables ==
    {Table(n, cs, <<"id">>, << >>, << >>) :
        n \in {"A", "B"},
        cs \in {<<Col("id", "Int", FALSE)>>,
                <<Col("id", "Int", FALSE), EnumCol("x", "E", TRUE)>>,
                <<Col("id", "Int", FALSE), EnumCol("x", "E", FALSE)>>,
                <<Col("id", "Int", FALSE), EnumCol("x", "F", TRUE)>>}}

EnumInputs ==
    Inputs({ts \in TableLists(EnumTables) : Len(ts) = 1}, EnumLists, Flavours({"has_enums"}))

(* Plain tables whose names differ in case only, and the bookkeeping table.
   A snapshot of a flavour with lower-cased identifiers has no two tables
   whose names match. *)
NamedTables ==
    {Table(n, <<Col("id", "Int", FALSE)>>, <<"id">>, << >>, << >>) :
        n \in {"A", "a", "B", "_prisma_migrations"}}

NamesDistinct(fl, tables) ==
    \A i, j \in 1..Len(tables) :
        i # j => ~table_names_match(fl, tables[i].name, tables[j].name)

NamedTableInputs ==
    {input \in Inputs(TableLists(NamedTables), {<< >>},
                     Flavours({"lower_case_identifiers", "ignores_tables_of_its_own"})) :
        /\ NamesDistinct(input.flavour, input.previous.tables)
        /\ NamesDistinct(input.flavour, input.next.tables)}

(* s with x inserted at position j. *)
InsertAt(s, j, x) == SubSeq(s, 1, j - 1) \o <<x>> \o SubSeq(s, j, Len(s))

(* A snapshot and the same snapshot with one change to the columns of one
   table: a column nickname, nullable or required, added in front of or
   behind the others, or the column x made nullable. *)
ColumnVariants(columns) ==
    {InsertAt(columns, j, [Col("nickname", "String", FALSE) EXCEPT !.arity = arity]) :
        j \in {1, Len(columns) + 1}, arity \in {"Nullable", "Required"}}
    \cup {[c \in 1..Len(columns) |->
              IF columns[c].name = "x" THEN [columns[c] EXCEPT !.arity = "Nullable"]
              ELSE columns[c]]}

ColumnVariantInputs(ts, t) ==
    {[previous |-> [tables |-> ts, enums |-> << >>],
      next |-> [tables |-> [ts EXCEPT ![t].columns = columns], enums |-> << >>],
      flavour |-> fl] :
         columns \in ColumnVariants(ts[t].columns),
         fl \in Flavours({"redefines_tables", "pushes_index_changes_for_column_changes",
                          "ignores_tables_of_its_own"})}

AddedColumnInputs ==
    UNION {UNION {ColumnVariantInputs(ts, t) : t \in 1..Len(ts)} :
              ts \in TableLists(WholeTables)}

(* The bookkeeping table in several shapes, beside a table A: it is created,
   dropped, or kept with other columns, indexes and foreign keys. *)
MigrationsTables ==
    {Table("_prisma_migrations", <<Col("id", "Int", FALSE), Col("x", "Int", FALSE)>>, <<"id">>,
           << >>, << >>),
     Table("_prisma_migrations", <<Col("id", "Int", FALSE), Col("x", "Int", FALSE)>>, <<"id">>,
           <<Ix("ix", <<"x">>, FALSE)>>, <<Fk("fk", "_prisma_migrations")>>),
     Table("_prisma_migrations", <<Col("id", "Uuid", FALSE), Col("y", "Int", FALSE)>>, << >>,
           <<Ix("iy", <<"y">>, FALSE)>>, << >>),
     Table("A", <<Col("id", "Int", FALSE), Col("x", "Int", FALSE)>>, <<"id">>, << >>, << >>),
     Table("A", <<Col("id", "Int", FALSE), Col("x", "Int", FALSE)>>, <<"id">>,
           <<Ix("ix", <<"x">>, FALSE)>>, <<Fk("fk", "A")>>)}

MigrationsTableInputs ==
    Inputs(TableLists(MigrationsTables), {<< >>},
           Flavours({"should_push_foreign_keys_from_created_tables",
                     "should_create_indexes_from_created_tables"})
           \cup Flavours({"redefines_tables", "should_drop_indexes_from_dropped_tables"})
           \cup Flavours({"pushes_index_changes_for_column_changes"}))

AllInputs ==
    WholeTableInputs \cup MatchedTableInputs \cup EnumInputs \cup NamedTableInputs
    \cup AddedColumnInputs \cup MigrationsTableInputs

(***************************************************************************)
(* QueryGraph (query_graph/mod.rs): a petgraph Graph whose node and edge    *)
(* weights are guarded contents, and the list of result nodes.              *)
(*   graph = [nodes |-> Seq(content),                                       *)
(*            edges |-> Seq([source, target, content])]                     *)
(* A NodeIndex / EdgeIndex is the position in nodes / edges (1-based here). *)
(* A node content is "Query" or "If" (Flow::If), an edge content one of the *)
(* QueryGraphDependency variants; the content of an unset Guard is None.    *)
(***************************************************************************)

NodeContents == {"Query", "If"}

QueryGraphDependency == {"ExecutionOrder", "ParentId", "Then", "Else"}

(* The last call on the graph: its name, its arguments and what it returned. *)
Returned(op, arg, value) == [op |-> op, arg |-> arg, value |-> value]

(* QueryGraph::new(). *)
QueryGraphNew ==
    /\ graph = [nodes |-> << >>, edges |-> << >>]
    /\ result_nodes = << >>
    /\ returned = Returned("new", << >>, None)

(* graph.add_node(Guard::new(t.into())): the new node takes the next index. *)
create_node(g, t) == [g EXCEPT !.nodes = Append(@, t)]

(* graph.add_edge(from, to, Guard::new(content)): the new edge takes the next
   index; parallel edges and self loops are accepted. *)
create_edge(g, from, to, content) ==
    [g EXCEPT !.edges = Append(@, [source |-> from, target |-> to, content |-> content])]

node_content(g, node) == g.nodes[node]

edge_content(g, edge) == g.edges[edge].content

edge_source(g, edge) == g.edges[edge].source

edge_target(g, edge) == g.edges[edge].target

(* The edges that leave (Outgoing) or enter (Incoming) the node, sorted by
   edge index. *)
collect_edges(g, node, direction) ==
    SelectSeq([e \in 1..Len(g.edges) |-> e],
              LAMBDA e : IF direction = "Outgoing" THEN g.edges[e].source = node
                         ELSE g.edges[e].target = node)

outgoing_edges(g, node) == collect_edges(g, node, "Outgoing")

incoming_edges(g, node) == collect_edges(g, node, "Incoming")

(* The nodes without an incoming edge, in index order. *)
root_nodes(g) ==
    SelectSeq([n \in 1..Len(g.nodes) |-> n],
              LAMBDA n : ~\E e \in 1..Len(g.edges) : g.edges[e].target = n)

is_result_node(results, node) == \E i \in 1..Len(results) : results[i] = node

(* is_direct_child: no incoming edge of child is found whose source is not
   parent. *)
is_direct_child(g, parent, child) ==
    ~\E i \in 1..Len(incoming_edges(g, child)) :
        edge_source(g, incoming_edges(g, child)[i]) # parent

(* Graph::remove_edge of petgraph: the last edge adopts the index of the
   removed one. *)
remove_edge(g, edge) ==
    [g EXCEPT !.edges = [e \in 1..(Len(@) - 1) |-> IF e = edge THEN @[Len(@)] ELSE @[e]]]

(* pluck_edge that takes the edge out of the graph, as remove_edge does. *)
pluck_edge_removing_the_edge(g, edge) == remove_edge(g, edge)

(* Guard::unset: what is left in the guard once its content is taken out. *)
unset(content) == None

(* edge_weight_mut(edge).unwrap().unset(): the guard stays, its content goes. *)
pluck_edge(g, edge) == [g EXCEPT !.edges[edge].content = unset(@)]

(* node_weight_mut(node).unwrap().unset(). *)
pluck_node(g, node) == [g EXCEPT !.nodes[node] = unset(@)]

(* Option::or over the outcomes of the search of find: the first child whose
   subgraph holds a result decides; a call that never returns decides too. *)
FoundOr(outcome, rest) == IF outcome = "false" THEN rest ELSE outcome

(* subgraph_contains_result(node), called while the calls for the nodes of
   active are on the stack. The call reads nothing but the graph and the
   node, so a call for a node that is already on the stack repeats itself
   without end and the stack overflows. Outcomes: "true", "false",
   "stack overflow". *)
RECURSIVE subgraph_contains_result(_, _, _, _)
RECURSIVE FindChildWithResult(_, _, _, _)
subgraph_contains_result(g, results, node, active) ==
    IF node \in active THEN "stack overflow"
    ELSE IF is_result_node(results, node) THEN "true"
    ELSE FindChildWithResult(g, results, outgoing_edges(g, node), active \cup {node})

(* outgoing_edges(node).into_iter().find(|edge| subgraph_contains_result(target)) *)
FindChildWithResult(g, results, edges, active) ==
    IF edges = << >> THEN "false"
    ELSE FoundOr(subgraph_contains_result(g, results, edge_target(g, Head(edges)), active),
                 FindChildWithResult(g, results, Tail(edges), active))

(***************************************************************************)
(* The @default attribute of the datamodel (transform/attributes/default.rs).*)
(* A field is [kind, arity, field_type, default_value]; kind is             *)
(* RelationField or ScalarField, field_type is [kind, scalar_type] with     *)
(* kind Base, NativeType, Enum or Unsupported, and default_value is an      *)
(* Option: << >> or <<default value>>. A default value is                   *)
(* [kind, name, args]: Single with the type and the value, or Expression    *)
(* with the name and the arguments of the generator. An argument of the     *)
(* attribute is an ast expression [kind, value, args].                      *)
(***************************************************************************)

Ok(value) == [ok |-> TRUE, value |-> value]

Err(error) == [ok |-> FALSE, value |-> error]

FieldType(kind, scalar_type) == [kind |-> kind, scalar_type |-> scalar_type]

FieldTypes ==
    {FieldType(kind, scalar_type) :
         kind \in {"Base", "NativeType"}, scalar_type \in {"Int", "String"}}
        \cup {FieldType("Enum", None), FieldType("Unsupported", None)}

ScalarField(arity, field_type) ==
    [kind |-> "ScalarField", arity |-> arity, field_type |-> field_type, default_value |-> << >>]

Fields ==
    {[kind |-> "RelationField", arity |-> "Required",
      field_type |-> FieldType("Relation", None), default_value |-> << >>]}
        \cup {ScalarField(arity, field_type) :
                  arity \in {"Required", "Optional", "List"}, field_type \in FieldTypes}

Expression(kind, value, args) == [kind |-> kind, value |-> value, args |-> args]

GeneratorNames == {"autoincrement", "uuid", "dbgenerated"}

(* The expressions an argument of @default is drawn from: literals, and
   calls of the generators and of a function that is none. *)
Expressions ==
    {Expression("NumericValue", "1", << >>), Expression("StringValue", "a", << >>),
     Expression("ConstantValue", "A", << >>)}
        \cup {Expression("Function", name, args) :
                  name \in GeneratorNames \cup {"foo"}, args \in {<< >>, <<"">>, <<"x">>}}

(* Arguments of one @default attribute: without an argument, or with one. *)
Arguments == {<< >>} \cup {<<expression>> : expression \in Expressions}

Single(type, value) == [kind |-> "Single", name |-> type, args |-> <<value>>]

ValueGenerator(name, args) == [kind |-> "Expression", name |-> name, args |-> args]

(* args.default_arg("value"): the argument, or an error when there is none. *)
default_arg(args) ==
    IF args = << >> THEN Err("Argument \"value\" is missing.") ELSE Ok(args[1])

as_value_generator(expression) ==
    IF expression.kind = "Function" /\ expression.value \in GeneratorNames
    THEN Ok(ValueGenerator(expression.value, expression.args))
    ELSE Err("Expected a function value.")

as_constant_literal(expression) ==
    IF expression.kind = "ConstantValue" THEN Ok(expression.value)
    ELSE Err("Expected a constant literal value.")

is_dbgenerated(generator) == generator.name = "dbgenerated"

(* ValueGenerator::as_dbgenerated: the string argument of dbgenerated. *)
as_dbgenerated(generator) ==
    IF is_dbgenerated(generator) /\ generator.args # << >> THEN <<generator.args[1]>> ELSE << >>

as_default_value_for_scalar_type(expression, scalar_type) ==
    IF expression.kind = "Function"
    THEN IF ~as_value_generator(expression).ok THEN as_value_generator(expression)
         ELSE IF \/ expression.value = "autoincrement" /\ scalar_type # "Int"
                 \/ expression.value = "uuid" /\ scalar_type # "String"
              THEN Err("The function is not compatible with the type.")
              ELSE as_value_generator(expression)
    ELSE IF \/ expression.kind = "NumericValue" /\ scalar_type = "Int"
            \/ expression.kind = "StringValue" /\ scalar_type = "String"
         THEN Ok(Single(scalar_type, expression.value))
         ELSE Err("The value is not of the type.")

(* validate_dbgenerated: an error when the default of the field is
   dbgenerated with the empty string as its argument. *)
validate_dbgenerated(f) ==
    IF /\ f.default_value # << >>
       /\ f.default_value[1].kind = "Expression"
       /\ as_dbgenerated(f.default_value[1]) = <<"">>
    THEN Err("dbgenerated() takes either no argument, or a single nonempty string argument.")
    ELSE Ok(None)

(* What a call leaves behind: the field, with the default value dv when
   dv is not << >>, and the Result the call returned. *)
Outcome(f, dv, result) ==
    [field |-> IF dv = << >> THEN f ELSE [f EXCEPT !.default_value = dv], result |-> result]

(* Lines 26-67: the branch of the field type, on a scalar field that is no
   list. Ok stands for reaching line 70. *)
ApplyToScalarField(args, sf) ==
    IF ~default_arg(args).ok THEN Outcome(sf, << >>, default_arg(args))
    ELSE IF sf.field_type.kind \in {"Base", "NativeType"}
    THEN IF as_default_value_for_scalar_type(args[1], sf.field_type.scalar_type).ok
         THEN Outcome(sf, <<as_default_value_for_scalar_type(
                                 args[1], sf.field_type.scalar_type).value>>, Ok(None))
         ELSE Outcome(sf, << >>,
                      as_default_value_for_scalar_type(args[1], sf.field_type.scalar_type))
    ELSE IF sf.field_type.kind = "Enum"
    THEN IF as_constant_literal(args[1]).ok
         THEN Outcome(sf, <<Single("Enum", as_constant_literal(args[1]).value)>>, Ok(None))
         ELSE IF ~as_value_generator(args[1]).ok
              THEN Outcome(sf, << >>, as_value_generator(args[1]))
         ELSE IF is_dbgenerated(as_value_generator(args[1]).value)
              THEN Outcome(sf, <<as_value_generator(args[1]).value>>, Ok(None))
              ELSE Outcome(sf, << >>, as_constant_literal(args[1]))
    ELSE IF sf.field_type.kind = "Unsupported"
    THEN IF ~as_value_generator(args[1]).ok
         THEN Outcome(sf, << >>, as_value_generator(args[1]))
         ELSE IF is_dbgenerated(as_value_generator(args[1]).value)
              THEN Outcome(sf, <<as_value_generator(args[1]).value>>, Ok(None))
              ELSE Outcome(sf, << >>, Err("Invalid default value on Unsupported type."))
    ELSE Outcome(sf, << >>, Ok(None))

validate_and_apply(args, f) ==
    IF f.kind = "RelationField"
    THEN Outcome(f, << >>, Err("Cannot set a default value on a relation field."))
    ELSE IF f.arity = "List"
    THEN Outcome(f, << >>, Err("Cannot set a default value on list field."))
    ELSE LET applied == ApplyToScalarField(args, f)
         IN IF applied.result.ok
            THEN Outcome(applied.field, << >>, validate_dbgenerated(applied.field))
            ELSE applied

(* A field before any attribute is applied to it, and no call made. *)
DefaultAttributeNew ==
    /\ field = None
    /\ validated = None

(***************************************************************************)
(* The state machine: one diff of (previous, next), which may be run again, *)
(* and the diff in the opposite direction.                                  *)
(***************************************************************************)

Init ==
    /\ \E input \in AllInputs :
           /\ previous = input.previous
           /\ next = input.next
           /\ flavour = input.flavour
    /\ pc = "start"
    /\ steps = << >>
    /\ reverse_steps = << >>
    /\ fks_match = None
    /\ QueryGraphNew
    /\ DefaultAttributeNew

(* calculate_steps(Pair(previous, next), flavour). *)
CalculateSteps ==
    /\ pc \in {"start", "done"}
    /\ \E v \in drop_indexes(DifferDatabase(previous, next, flavour)) :
           steps' = calculate_steps(DifferDatabase(previous, next, flavour), v)
    /\ pc' = "done"
    /\ UNCHANGED <<previous, next, flavour, reverse_steps, other_vars>>

(* calculate_steps(Pair(next, previous), flavour). *)
CalculateReverseSteps ==
    /\ pc = "done"
    /\ \E v \in drop_indexes(DifferDatabase(next, previous, flavour)) :
           reverse_steps' = calculate_steps(DifferDatabase(next, previous, flavour), v)
    /\ pc' = "reversed"
    /\ UNCHANGED <<previous, next, flavour, steps, other_vars>>

Next == CalculateSteps \/ CalculateReverseSteps

Spec == Init /\ [][Next]_vars

(***************************************************************************)
(* foreign_keys_match on its own: a foreign key of the one table of         *)
(* previous against a foreign key of the one table of next.                 *)
(***************************************************************************)

(* Foreign keys that differ in every field that foreign_keys_match could
   read: the constrained columns, the referenced table and columns, and the
   constraint name together with the on-delete action. *)
ForeignKeys ==
    {[constraint_name |-> naming[1], columns |-> columns,
      referenced_table |-> referenced_table, referenced_columns |-> referenced_columns,
      on_delete_action |-> naming[2]] :
        naming \in {<<"fk", "Cascade">>, <<None, "SetNull">>},
        columns \in {<<"x">>, <<"y">>, <<"x", "y">>},
        referenced_table \in {"A", "a", "B"},
        referenced_columns \in {<<"id">>, <<"x">>, <<"id", "x">>}}

(* The table that owns the foreign key, with column x of the given family. *)
ForeignKeyTable(family, fk) ==
    Table("A", <<Col("id", "Int", FALSE), Col("x", family, FALSE), Col("y", "Int", FALSE)>>,
          <<"id">>, << >>, <<fk>>)

ForeignKeyInit ==
    /\ \E pfk \in ForeignKeys, nfk \in ForeignKeys,
          pfamily \in {"Int", "String", "Uuid"}, nfamily \in {"String", "Uuid"},
          fl \in Flavours({"lower_case_identifiers"}) :
           /\ previous = [tables |-> <<ForeignKeyTable(pfamily, pfk)>>, enums |-> << >>]
           /\ next = [tables |-> <<ForeignKeyTable(nfamily, nfk)>>, enums |-> << >>]
           /\ flavour = fl
    /\ pc = "start"
    /\ steps = << >>
    /\ reverse_steps = << >>
    /\ fks_match = None
    /\ QueryGraphNew
    /\ DefaultAttributeNew

(* foreign_keys_match(Pair(previous foreign key, next foreign key), flavour). *)
ForeignKeysMatch ==
    /\ pc = "start"
    /\ fks_match' = foreign_keys_match(flavour,
                        previous.tables[1], previous.tables[1].foreign_keys[1],
                        next.tables[1], next.tables[1].foreign_keys[1])
    /\ pc' = "matched"
    /\ UNCHANGED <<previous, next, flavour, steps, reverse_steps, graph_vars, default_vars>>

ForeignKeyNext == ForeignKeysMatch

ForeignKeySpec == ForeignKeyInit /\ [][ForeignKeyNext]_vars

(***************************************************************************)
(* The calls on one QueryGraph. Node and edge references are the ones the   *)
(* graph hands out for its current nodes and edges.                         *)
(***************************************************************************)

MaxNodes == 2

MaxEdges == 2

MaxResultNodes == 1

QueryGraphInit ==
    /\ QueryGraphNew
    /\ DefaultAttributeNew
    /\ pc = "running"
    /\ previous = None
    /\ next = None
    /\ flavour = None
    /\ steps = << >>
    /\ reverse_steps = << >>
    /\ fks_match = None

CreateNode(t) ==
    /\ pc = "running"
    /\ Len(graph.nodes) < MaxNodes
    /\ graph' = create_node(graph, t)
    /\ returned' = Returned("create_node", <<t>>, Len(graph.nodes) + 1)
    /\ UNCHANGED <<pc, result_nodes, differ_vars, default_vars>>

CreateEdge(from, to, content) ==
    /\ pc = "running"
    /\ Len(graph.edges) < MaxEdges
    /\ graph' = create_edge(graph, from, to, content)
    /\ returned' = Returned("create_edge", <<from, to, content>>, Len(graph.edges) + 1)
    /\ UNCHANGED <<pc, result_nodes, differ_vars, default_vars>>

AddResultNode(node) ==
    /\ pc = "running"
    /\ Len(result_nodes) < MaxResultNodes
    /\ result_nodes' = Append(result_nodes, node)
    /\ returned' = Returned("add_result_node", <<node>>, None)
    /\ UNCHANGED <<pc, graph, differ_vars, default_vars>>

(* unset() of a guard that is already empty panics: it has no content to
   return. *)
PluckEdge(edge) ==
    /\ pc = "running"
    /\ IF edge_content(graph, edge) = None
       THEN /\ pc' = "aborted"
            /\ returned' = Returned("pluck_edge", <<edge>>, "panic")
            /\ UNCHANGED graph
       ELSE /\ graph' = pluck_edge(graph, edge)
            /\ returned' = Returned("pluck_edge", <<edge>>, edge_content(graph, edge))
            /\ UNCHANGED pc
    /\ UNCHANGED <<result_nodes, differ_vars, default_vars>>

PluckNode(node) ==
    /\ pc = "running"
    /\ IF node_content(graph, node) = None
       THEN /\ pc' = "aborted"
            /\ returned' = Returned("pluck_node", <<node>>, "panic")
            /\ UNCHANGED graph
       ELSE /\ graph' = pluck_node(graph, node)
            /\ returned' = Returned("pluck_node", <<node>>, node_content(graph, node))
            /\ UNCHANGED pc
    /\ UNCHANGED <<result_nodes, differ_vars, default_vars>>

RemoveEdge(edge) ==
    /\ pc = "running"
    /\ graph' = remove_edge(graph, edge)
    /\ returned' = Returned("remove_edge", <<edge>>, edge_content(graph, edge))
    /\ UNCHANGED <<pc, result_nodes, differ_vars, default_vars>>

SubgraphContainsResult(node) ==
    /\ pc = "running"
    /\ returned' = Returned("subgraph_contains_result", <<node>>,
                            subgraph_contains_result(graph, result_nodes, node, {}))
    /\ pc' = IF returned'.value = "stack overflow" THEN "aborted" ELSE pc
    /\ UNCHANGED <<graph, result_nodes, differ_vars, default_vars>>

IsDirectChild(parent, child) ==
    /\ pc = "running"
    /\ returned' = Returned("is_direct_child", <<parent, child>>,
                            is_direct_child(graph, parent, child))
    /\ UNCHANGED <<graph, result_nodes, pc, differ_vars, default_vars>>

QueryGraphNext ==
    \/ \E t \in NodeContents : CreateNode(t)
    \/ \E from \in 1..Len(graph.nodes), to \in 1..Len(graph.nodes),
          content \in QueryGraphDependency : CreateEdge(from, to, content)
    \/ \E node \in 1..Len(graph.nodes) : AddResultNode(node)
    \/ \E edge \in 1..Len(graph.edges) : PluckEdge(edge)
    \/ \E node \in 1..Len(graph.nodes) : PluckNode(node)
    \/ \E edge \in 1..Len(graph.edges) : RemoveEdge(edge)
    \/ \E node \in 1..Len(graph.nodes) : SubgraphContainsResult(node)
    \/ \E parent \in 1..Len(graph.nodes), child \in 1..Len(graph.nodes) :
          IsDirectChild(parent, child)

QueryGraphSpec == QueryGraphInit /\ [][QueryGraphNext]_vars

(***************************************************************************)
(* @default attributes applied to one field of the datamodel.               *)
(***************************************************************************)

MaxAttributes == 2

DefaultAttributeInit ==
    /\ field \in Fields
    /\ validated = [calls |-> 0, args |-> << >>, result |-> Ok(None)]
    /\ pc = "validating"
    /\ previous = None
    /\ next = None
    /\ flavour = None
    /\ steps = << >>
    /\ reverse_steps = << >>
    /\ fks_match = None
    /\ QueryGraphNew

(* DefaultAttributeValidator.validate_and_apply(args, field). *)
ValidateAndApply(args) ==
    /\ pc = "validating"
    /\ validated.calls < MaxAttributes
    /\ field' = validate_and_apply(args, field).field
    /\ validated' = [calls |-> validated.calls + 1, args |-> args,
                     result |-> validate_and_apply(args, field).result]
    /\ UNCHANGED <<pc, differ_vars, graph_vars>>

DefaultAttributeNext == \E args \in Arguments : ValidateAndApply(args)

DefaultAttributeSpec == DefaultAttributeInit /\ [][DefaultAttributeNext]_vars

(***************************************************************************)
(* Properties of the step list.                                             *)
(***************************************************************************)

(* calculate_steps has returned. *)
Diffed == pc # "start"

PhaseOrder ==
    <<"CreateEnum", "AlterEnum", "DropForeignKey", "DropIndex", "AlterTable", "DropTable",
      "DropEnum", "CreateTable", "RedefineTables", "CreateIndex", "AddForeignKey",
      "AlterIndex", "RedefineIndex">>

(* Position of a step kind in the phase order. *)
PhaseOf(kind) == CHOOSE r \in 1..Len(PhaseOrder) : PhaseOrder[r] = kind

Kinds(step_list) == {step_list[i].kind : i \in 1..Len(step_list)}

(* C1: in every returned step list the steps are grouped by kind in the fixed
   phase order CreateEnum, AlterEnum, DropForeignKey, DropIndex, AlterTable,
   DropTable, DropEnum, CreateTable, RedefineTable(s), CreateIndex,
   AddForeignKey, AlterIndex, RedefineIndex: of two steps of different kinds
   the one of the earlier phase comes first. *)
C1_PhasesInFixedOrder ==
    Diffed =>
        \A i, j \in 1..Len(steps) :
            PhaseOf(steps[i].kind) < PhaseOf(steps[j].kind) => i < j

C1_Witness ==
    /\ Diffed
    /\ {"DropForeignKey", "DropIndex", "DropTable", "RedefineTables", "CreateIndex",
        "AddForeignKey"} \subseteq Kinds(steps)

(* C2: every DropForeignKey step of a table T comes before the DropTable
   step of T in the same result. *)
C2_DropForeignKeyBeforeDropTable ==
    Diffed =>
        \A i, j \in 1..Len(steps) :
            (/\ steps[i].kind = "DropForeignKey"
             /\ steps[j].kind = "DropTable"
             /\ steps[i].table_index = steps[j].table_index) => i < j

C2_Witness ==
    /\ Diffed
    /\ \E i, j \in 1..Len(steps) :
           /\ steps[i].kind = "DropForeignKey"
           /\ steps[j].kind = "DropTable"
           /\ steps[i].table_index = steps[j].table_index

(* Whether a step is an AlterTable, CreateTable or RedefineTables step that
   touches table t of the next snapshot. *)
TouchesNextTable(step, t) ==
    \/ step.kind = "AlterTable" /\ step.table_index.next = t
    \/ step.kind = "CreateTable" /\ step.table_index = t
    \/ step.kind = "RedefineTables"
       /\ \E k \in 1..Len(step.tables) : step.tables[k].table_index.next = t

(* C3: no CreateIndex step comes before an AlterTable, CreateTable or
   RedefineTables step that touches the table of the index, whether the
   CreateIndex is for a created index, was added by
   push_index_changes_for_column_changes or is re-emitted for a recreated
   column. *)
C3_CreateIndexAfterTableSteps ==
    Diffed =>
        \A i, j \in 1..Len(steps) :
            (steps[i].kind = "CreateIndex" /\ TouchesNextTable(steps[j], steps[i].table_index))
                => j < i

(* A CreateIndex on a table that also has an AlterTable step: one pushed by
   the flavour hook for a column whose type is altered, or one re-emitted
   for a recreated column of a table that is redefined as well. *)
C3_Witness ==
    /\ Diffed
    /\ \E i, j \in 1..Len(steps) :
           /\ steps[i].kind = "CreateIndex"
           /\ steps[j].kind = "AlterTable"
           /\ steps[j].table_index.next = steps[i].table_index
           /\ \/ flavour.pushes_index_changes_for_column_changes
                 /\ \E c \in 1..Len(steps[j].changes) :
                        steps[j].changes[c].kind = "AlterColumn"
              \/ flavour.indexes_should_be_recreated_after_column_drop
                 /\ \E c \in 1..Len(steps[j].changes) :
                        steps[j].changes[c].kind = "DropAndRecreateColumn"
                 /\ \E k \in 1..Len(steps) : steps[k].kind = "RedefineTables"

(* C4: every CreateIndex step comes strictly before every AddForeignKey
   step. *)
C4_CreateIndexBeforeAddForeignKey ==
    Diffed =>
        \A i, j \in 1..Len(steps) :
            (steps[i].kind = "CreateIndex" /\ steps[j].kind = "AddForeignKey") => i < j

(* A unique index and a foreign key are added to one matched table. *)
C4_Witness ==
    /\ Diffed
    /\ \E i, j \in 1..Len(steps) :
           /\ steps[i].kind = "CreateIndex"
           /\ ~steps[i].caused_by_create_table
           /\ next.tables[steps[i].table_index].indexes[steps[i].index_index].unique
           /\ steps[j].kind = "AddForeignKey"
           /\ steps[j].table_index = steps[i].table_index

(* C5: the diff of a snapshot against an identical copy of itself is the
   empty step list. *)
C5_IdenticalSnapshotsGiveNoSteps ==
    (Diffed /\ previous = next) => steps = << >>

(* Identical snapshots with tables that have indexes and foreign keys, under
   a flavour that redefines tables. *)
C5_Witness ==
    /\ Diffed
    /\ previous = next
    /\ Len(previous.tables) = 2
    /\ previous.tables[1].indexes # << >>
    /\ previous.tables[1].foreign_keys # << >>
    /\ flavour.redefines_tables

(* The names of the tables that the steps of one kind target in a snapshot. *)
TargetNames(step_list, kind, schema) ==
    {schema.tables[step_list[i].table_index].name :
        i \in {i \in 1..Len(step_list) : step_list[i].kind = kind}}

(* C6: the names targeted by CreateTable in diff(A, B) are those targeted by
   DropTable in diff(B, A), and the names targeted by DropTable in diff(A, B)
   are those targeted by CreateTable in diff(B, A). *)
C6_CreateDropSymmetry ==
    pc = "reversed" =>
        /\ TargetNames(steps, "CreateTable", next)
               = TargetNames(reverse_steps, "DropTable", next)
        /\ TargetNames(steps, "DropTable", previous)
               = TargetNames(reverse_steps, "CreateTable", previous)

(* Both directions run on snapshots with a table that is dropped one way and
   created the other way, and a matched table whose names differ in case
   only. *)
C6_Witness ==
    /\ pc = "reversed"
    /\ flavour.lower_case_identifiers
    /\ TargetNames(steps, "DropTable", previous) # {}
    /\ TargetNames(reverse_steps, "CreateTable", previous) # {}
    /\ \E i \in 1..Len(previous.tables), j \in 1..Len(next.tables) :
           /\ previous.tables[i].name # next.tables[j].name
           /\ table_names_match(flavour, previous.tables[i].name, next.tables[j].name)

(* C7: the step list is a function of (previous, next, flavour) alone: a
   second run of calculate_steps on the same inputs returns the same steps in
   the same order, whatever order the set of DropIndex steps iterates in. *)
C7_RunsAgree == [][(pc = "done" /\ pc' = "done") => steps' = steps]_vars

(* The position a step is emitted for: <<table position, position of the
   column, index or foreign key in the table>>, in the snapshot the step
   refers to. *)
PositionOf(step) ==
    CASE step.kind = "DropForeignKey" -> <<step.table_index, step.foreign_key_index>>
      [] step.kind = "AddForeignKey" -> <<step.table_index, step.foreign_key_index>>
      [] step.kind = "DropIndex" -> <<step.table_index, step.index_index>>
      [] step.kind = "CreateIndex" -> <<step.table_index, step.index_index>>
      [] step.kind = "CreateTable" -> <<step.table_index, 0>>
      [] step.kind = "DropTable" -> <<step.table_index, 0>>
      [] OTHER -> <<0, 0>>

(* Lexicographic order on positions. *)
PositionLeq(a, b) == a[1] < b[1] \/ (a[1] = b[1] /\ a[2] <= b[2])

(* C8: within each phase the steps are in snapshot positional order, by
   table position and then by index or foreign-key position in the table;
   this is stated for the DropForeignKey, DropIndex, CreateIndex,
   AddForeignKey, CreateTable and DropTable phases. *)
C8_PositionalOrderWithinPhases ==
    Diffed =>
        \A i, j \in 1..Len(steps) :
            (i < j /\ steps[i].kind = steps[j].kind)
                => PositionLeq(PositionOf(steps[i]), PositionOf(steps[j]))

(* The rank of a table change in the order of the change list. *)
ChangeRank(kind) ==
    CASE kind = "DropPrimaryKey" -> 1
      [] kind = "DropColumn" -> 2
      [] kind = "AddColumn" -> 3
      [] kind = "AlterColumn" -> 4
      [] kind = "DropAndRecreateColumn" -> 4
      [] kind = "AddPrimaryKey" -> 5

AlterTableSteps == {i \in 1..Len(steps) : steps[i].kind = "AlterTable"}

(* C9: the change list of every AlterTable step is ordered DropPrimaryKey
   (at most one, first), DropColumn changes, AddColumn changes,
   AlterColumn / DropAndRecreateColumn changes, AddPrimaryKey (at most one,
   last). *)
C9_ChangeListOrder ==
    Diffed =>
        \A i \in AlterTableSteps :
            /\ \A a, b \in 1..Len(steps[i].changes) :
                   a < b => ChangeRank(steps[i].changes[a].kind)
                                <= ChangeRank(steps[i].changes[b].kind)
            /\ \A a, b \in 1..Len(steps[i].changes) :
                   (/\ steps[i].changes[a].kind = steps[i].changes[b].kind
                    /\ steps[i].changes[a].kind \in {"DropPrimaryKey", "AddPrimaryKey"})
                       => a = b

(* An AlterTable step with a change of every kind. *)
C9_Witness ==
    /\ Diffed
    /\ \E i \in AlterTableSteps :
           {"DropPrimaryKey", "DropColumn", "AddColumn", "AlterColumn", "AddPrimaryKey"}
               \subseteq Kinds(steps[i].changes)

(* The columns (previous position p, next position n) of a matched pair of
   tables whose previous column is in the previous primary key and whose
   change of type is not castable. *)
NotCastablePrimaryKeyColumns(prev_table, next_table) ==
    {c \in (1..Len(prev_table.columns)) \X (1..Len(next_table.columns)) :
        /\ prev_table.columns[c[1]].name = next_table.columns[c[2]].name
        /\ prev_table.columns[c[1]].name \in Range(prev_table.primary_key)
        /\ column_type_change(flavour, prev_table.columns[c[1]].family,
                              next_table.columns[c[2]].family) = "NotCastable"}

(* The matched pairs of table positions of the two snapshots. *)
MatchedTablePositions ==
    {t \in (1..Len(previous.tables)) \X (1..Len(next.tables)) :
        /\ ~table_is_ignored(DifferDatabase(previous, next, flavour), previous.tables[t[1]].name)
        /\ table_names_match(flavour, previous.tables[t[1]].name, next.tables[t[2]].name)}

(* C10: under a flavour that recreates the primary key on column recreation,
   the AlterTable of every matched table with a not castable column in its
   previous primary key has DropPrimaryKey, then DropAndRecreateColumn of
   that column, then AddPrimaryKey; under the other flavours DropPrimaryKey
   is there only when the primary key was dropped and AddPrimaryKey only when
   it was created. *)
C10_PrimaryKeyRecreation ==
    Diffed =>
        /\ flavour.should_recreate_the_primary_key_on_column_recreate =>
               \A t \in MatchedTablePositions :
                   \A c \in NotCastablePrimaryKeyColumns(previous.tables[t[1]], next.tables[t[2]]) :
                       \E i \in AlterTableSteps :
                           /\ steps[i].table_index = [previous |-> t[1], next |-> t[2]]
                           /\ \E a, b, d \in 1..Len(steps[i].changes) :
                                  /\ a < b /\ b < d
                                  /\ steps[i].changes[a].kind = "DropPrimaryKey"
                                  /\ steps[i].changes[b].kind = "DropAndRecreateColumn"
                                  /\ steps[i].changes[b].column_index
                                         = [previous |-> c[1], next |-> c[2]]
                                  /\ steps[i].changes[d].kind = "AddPrimaryKey"
        /\ ~flavour.should_recreate_the_primary_key_on_column_recreate =>
               \A i \in AlterTableSteps :
                   \A a \in 1..Len(steps[i].changes) :
                       /\ steps[i].changes[a].kind = "DropPrimaryKey" =>
                              /\ previous.tables[steps[i].table_index.previous].primary_key # << >>
                              /\ previous.tables[steps[i].table_index.previous].primary_key
                                     # next.tables[steps[i].table_index.next].primary_key
                       /\ steps[i].changes[a].kind = "AddPrimaryKey" =>
                              /\ next.tables[steps[i].table_index.next].primary_key # << >>
                              /\ previous.tables[steps[i].table_index.previous].primary_key
                                     # next.tables[steps[i].table_index.next].primary_key

(* A flavour that recreates the primary key, and a matched table whose
   primary key stays the same while its column changes between uuid and
   int. *)
C10_Witness ==
    /\ Diffed
    /\ flavour.should_recreate_the_primary_key_on_column_recreate
    /\ \E t \in MatchedTablePositions :
           /\ previous.tables[t[1]].primary_key = next.tables[t[2]].primary_key
           /\ NotCastablePrimaryKeyColumns(previous.tables[t[1]], next.tables[t[2]]) # {}
           /\ \E i \in AlterTableSteps :
                  /\ steps[i].table_index = [previous |-> t[1], next |-> t[2]]
                  /\ {"DropPrimaryKey", "DropAndRecreateColumn", "AddPrimaryKey"}
                         \subseteq Kinds(steps[i].changes)

(* The matched pairs (previous position, next position) of the columns of a
   matched pair of tables. *)
MatchedColumnPositions(prev_table, next_table) ==
    {c \in (1..Len(prev_table.columns)) \X (1..Len(next_table.columns)) :
        prev_table.columns[c[1]].name = next_table.columns[c[2]].name}

(* The positions, in the change list of an AlterTable step, of the
   AlterColumn and DropAndRecreateColumn changes of column pair c. *)
ColumnChangesOf(step, c) ==
    {a \in 1..Len(step.changes) :
        /\ step.changes[a].kind \in {"AlterColumn", "DropAndRecreateColumn"}
        /\ step.changes[a].column_index = [previous |-> c[1], next |-> c[2]]}

(* Whether a table change is the one the classification type_change asks
   for. *)
ChangeFollowsClassification(change, type_change) ==
    IF type_change = "NotCastable"
    THEN change.kind = "DropAndRecreateColumn"
    ELSE change.kind = "AlterColumn" /\ change.type_change = type_change

(* C11: for every matched column pair that differs in something there is
   exactly one table change, in the AlterTable of its table, and it follows
   the flavour's classification: NotCastable gives DropAndRecreateColumn,
   SafeCast and RiskyCast give AlterColumn with that classification, no type
   change gives AlterColumn with no classification. *)
C11_ChangeFollowsCastClassification ==
    Diffed =>
        \A t \in MatchedTablePositions :
            \A c \in MatchedColumnPositions(previous.tables[t[1]], next.tables[t[2]]) :
                differs_in_something(
                    ColumnChanges(flavour, previous.tables[t[1]].columns[c[1]],
                                  next.tables[t[2]].columns[c[2]]).changes)
                => /\ Cardinality({i \in AlterTableSteps :
                          steps[i].table_index = [previous |-> t[1], next |-> t[2]]}) = 1
                   /\ \A i \in AlterTableSteps :
                          steps[i].table_index = [previous |-> t[1], next |-> t[2]]
                          => /\ Cardinality(ColumnChangesOf(steps[i], c)) = 1
                             /\ \A a \in ColumnChangesOf(steps[i], c) :
                                    ChangeFollowsClassification(
                                        steps[i].changes[a],
                                        column_type_change(flavour,
                                            previous.tables[t[1]].columns[c[1]].family,
                                            next.tables[t[2]].columns[c[2]].family))

(* One AlterTable with a column that is dropped and recreated and a column
   that is altered with a risky cast. *)
C11_Witness ==
    /\ Diffed
    /\ \E i \in AlterTableSteps :
           /\ \E a \in 1..Len(steps[i].changes) :
                  steps[i].changes[a].kind = "DropAndRecreateColumn"
           /\ \E a \in 1..Len(steps[i].changes) :
                  /\ steps[i].changes[a].kind = "AlterColumn"
                  /\ steps[i].changes[a].type_change = "RiskyCast"

(* s without its element at position j. *)
RemoveAt(s, j) == SubSeq(s, 1, j - 1) \o SubSeq(s, j + 1, Len(s))

(* The snapshots differ only in that table t, which takes part in the diff,
   has one more column in next, at position j, and that column is
   nullable. *)
OneNullableColumnAdded(t, j) ==
    /\ ~table_is_ignored(DifferDatabase(previous, next, flavour), previous.tables[t].name)
    /\ next = [previous EXCEPT !.tables[t].columns = next.tables[t].columns]
    /\ RemoveAt(next.tables[t].columns, j) = previous.tables[t].columns
    /\ next.tables[t].columns[j].arity = "Nullable"
    /\ \A c \in 1..Len(previous.tables[t].columns) :
           previous.tables[t].columns[c].name # next.tables[t].columns[j].name

(* C12: when the snapshots differ only in one additional nullable column of
   one matched table, the result is exactly one AlterTable step on that
   table with exactly one AddColumn change for the new column, and nothing
   else. *)
C12_AddNullableColumn ==
    (Diffed /\ Len(previous.tables) = Len(next.tables)) =>
        \A t \in 1..Len(next.tables) :
            \A j \in 1..Len(next.tables[t].columns) :
                OneNullableColumnAdded(t, j) =>
                    steps = <<[kind |-> "AlterTable",
                               table_index |-> [previous |-> t, next |-> t],
                               changes |-> <<[kind |-> "AddColumn", column_index |-> j]>>]>>

(* A nullable column added in front of the columns of the second of two
   tables with indexes and foreign keys, on a flavour that redefines
   tables. *)
C12_Witness ==
    /\ Diffed
    /\ Len(previous.tables) = 2
    /\ Len(next.tables) = 2
    /\ OneNullableColumnAdded(2, 1)
    /\ previous.tables[1].indexes # << >>
    /\ previous.tables[2].foreign_keys # << >>
    /\ flavour.redefines_tables

(* The previous tables with no name-matching next table, and the next tables
   with no name-matching previous table. *)
UnmatchedPreviousTables ==
    {p \in 1..Len(previous.tables) :
        \A n \in 1..Len(next.tables) :
            ~table_names_match(flavour, previous.tables[p].name, next.tables[n].name)}

UnmatchedNextTables ==
    {n \in 1..Len(next.tables) :
        \A p \in 1..Len(previous.tables) :
            ~table_names_match(flavour, previous.tables[p].name, next.tables[n].name)}

(* The steps equal to step. *)
StepsEqualTo(step) == {i \in 1..Len(steps) : steps[i] = step}

(* Previous table p has exactly one DropTable step and no AlterTable step. *)
DroppedOnce(p) ==
    /\ Cardinality(StepsEqualTo([kind |-> "DropTable", table_index |-> p])) = 1
    /\ \A i \in AlterTableSteps : steps[i].table_index.previous # p

(* Next table n has exactly one CreateTable step and no AlterTable step. *)
CreatedOnce(n) ==
    /\ Cardinality(StepsEqualTo([kind |-> "CreateTable", table_index |-> n])) = 1
    /\ \A i \in AlterTableSteps : steps[i].table_index.next # n

(* C13 as stated: every previous table with no name-matching next table has
   exactly one DropTable step, every next table with no name-matching
   previous table has exactly one CreateTable step, and neither is the
   target of an AlterTable step. *)
C13_UnmatchedTablesDroppedOrCreated ==
    Diffed =>
        /\ \A p \in UnmatchedPreviousTables : DroppedOnce(p)
        /\ \A n \in UnmatchedNextTables : CreatedOnce(n)

(* C13, amended: the same for the tables that take part in the diff, that
   is, all but _prisma_migrations and the tables the flavour ignores. *)
C13_UnmatchedDiffedTablesDroppedOrCreated ==
    Diffed =>
        /\ \A p \in UnmatchedPreviousTables :
               ~table_is_ignored(DifferDatabase(previous, next, flavour), previous.tables[p].name)
                   => DroppedOnce(p)
        /\ \A n \in UnmatchedNextTables :
               ~table_is_ignored(DifferDatabase(previous, next, flavour), next.tables[n].name)
                   => CreatedOnce(n)

(* One table dropped and one created with the same columns, indexes and
   foreign-key shape under another name. *)
C13_Witness ==
    /\ Diffed
    /\ Len(previous.tables) = 1
    /\ Len(next.tables) = 1
    /\ previous.tables[1].name # next.tables[1].name
    /\ previous.tables[1].columns = next.tables[1].columns
    /\ previous.tables[1].indexes = next.tables[1].indexes
    /\ steps = <<[kind |-> "DropTable", table_index |-> 1],
                 [kind |-> "CreateTable", table_index |-> 1]>>

(* The positions of the previous tables, and of the next tables, that a step
   targets. *)
PreviousTargets(step) ==
    CASE step.kind \in {"DropTable", "DropIndex", "DropForeignKey"} -> {step.table_index}
      [] step.kind = "AlterTable" -> {step.table_index.previous}
      [] step.kind = "RedefineTables" ->
             {step.tables[k].table_index.previous : k \in 1..Len(step.tables)}
      [] step.kind \in {"AlterIndex", "RedefineIndex"} -> {step.table.previous}
      [] OTHER -> {}

NextTargets(step) ==
    CASE step.kind \in {"CreateTable", "CreateIndex", "AddForeignKey"} -> {step.table_index}
      [] step.kind = "AlterTable" -> {step.table_index.next}
      [] step.kind = "RedefineTables" ->
             {step.tables[k].table_index.next : k \in 1..Len(step.tables)}
      [] step.kind \in {"AlterIndex", "RedefineIndex"} -> {step.table.next}
      [] OTHER -> {}

(* C14: no step of the result targets the table _prisma_migrations, whether
   it is in previous only, in next only, or in both with differences. *)
C14_MigrationsTableExcluded ==
    Diffed =>
        \A i \in 1..Len(steps) :
            /\ \A p \in PreviousTargets(steps[i]) :
                   previous.tables[p].name # "_prisma_migrations"
            /\ \A n \in NextTargets(steps[i]) :
                   next.tables[n].name # "_prisma_migrations"

(* The bookkeeping table is in both snapshots with other columns, beside a
   table that is redefined. *)
C14_Witness ==
    /\ Diffed
    /\ \E p \in 1..Len(previous.tables), n \in 1..Len(next.tables) :
           /\ previous.tables[p].name = "_prisma_migrations"
           /\ next.tables[n].name = "_prisma_migrations"
           /\ previous.tables[p].columns # next.tables[n].columns
    /\ \E i \in 1..Len(steps) : steps[i].kind = "RedefineTables"

(* The renamed index pairs <<previous position, next position>> of the
   matched pair of tables t: the same columns and uniqueness under another
   name. *)
RenamedIndexPairs(t) ==
    {x \in (1..Len(previous.tables[t[1]].indexes)) \X (1..Len(next.tables[t[2]].indexes)) :
        /\ indexes_match(previous.tables[t[1]].indexes[x[1]], next.tables[t[2]].indexes[x[2]])
        /\ previous.tables[t[1]].indexes[x[1]].name # next.tables[t[2]].indexes[x[2]].name}

(* The step of the given kind for the renamed index pair x of tables t. *)
IndexRenameStep(kind, t, x) ==
    [kind |-> kind,
     table |-> [previous |-> t[1], next |-> t[2]],
     index |-> [previous |-> x[1], next |-> x[2]]]

(* C15: on a flavour that can alter indexes every index rename is exactly
   one AlterIndex step and there is no RedefineIndex step; on a flavour that
   cannot, every index rename is exactly one RedefineIndex step and there is
   no AlterIndex step. *)
C15_AlterOrRedefineIndex ==
    Diffed =>
        /\ (IF flavour.can_alter_index THEN "RedefineIndex" ELSE "AlterIndex") \notin Kinds(steps)
        /\ \A t \in MatchedTablePositions :
               \A x \in RenamedIndexPairs(t) :
                   Cardinality(StepsEqualTo(
                       IndexRenameStep(IF flavour.can_alter_index THEN "AlterIndex"
                                       ELSE "RedefineIndex", t, x))) = 1

(* An index is renamed on a flavour that cannot alter indexes. *)
C15_Witness ==
    /\ Diffed
    /\ ~flavour.can_alter_index
    /\ \E t \in MatchedTablePositions : RenamedIndexPairs(t) # {}
    /\ "RedefineIndex" \in Kinds(steps)

(* The foreign keys and their tables that ForeignKeysMatch compared. *)
PreviousForeignKey == previous.tables[1].foreign_keys[1]
NextForeignKey == next.tables[1].foreign_keys[1]

(* Uuid and String are interchangeable, every other family only matches
   itself. *)
FamiliesInterchangeable(x, y) == x = y \/ {x, y} = {"Uuid", "String"}

(* C16: foreign_keys_match is true exactly when the referenced tables match
   under the flavour's table-name rule, the two keys reference the same
   number of columns and constrain the same number of columns, the
   constrained columns have equal names and interchangeable type families
   at every position, and the referenced column names are the same at every
   position; the constraint name and the on-delete action play no part. *)
C16_ForeignKeysMatchExactly ==
    pc = "matched" =>
        (fks_match <=>
            /\ table_names_match(flavour, PreviousForeignKey.referenced_table,
                                 NextForeignKey.referenced_table)
            /\ Len(PreviousForeignKey.referenced_columns) = Len(NextForeignKey.referenced_columns)
            /\ Len(PreviousForeignKey.columns) = Len(NextForeignKey.columns)
            /\ \A i \in 1..Len(PreviousForeignKey.columns) :
                   /\ PreviousForeignKey.columns[i] = NextForeignKey.columns[i]
                   /\ FamiliesInterchangeable(
                          ColumnFamily(previous.tables[1], PreviousForeignKey.columns[i]),
                          ColumnFamily(next.tables[1], NextForeignKey.columns[i]))
            /\ PreviousForeignKey.referenced_columns = NextForeignKey.referenced_columns)

(* Two keys that match although the constraint name, the on-delete action,
   the case of the referenced table and the family of the constrained column
   (Uuid against String) differ. *)
C16_Witness ==
    /\ pc = "matched"
    /\ fks_match
    /\ PreviousForeignKey.constraint_name # NextForeignKey.constraint_name
    /\ PreviousForeignKey.on_delete_action # NextForeignKey.on_delete_action
    /\ PreviousForeignKey.referenced_table # NextForeignKey.referenced_table
    /\ ColumnFamily(previous.tables[1], "x") # ColumnFamily(next.tables[1], "x")
    /\ PreviousForeignKey.columns = <<"x", "y">>

(***************************************************************************)
(* Properties of the QueryGraph.                                            *)
(***************************************************************************)

(* What holds the graph together: the node and edge indices and the source
   and target of every edge. *)
Structure(g) ==
    [nodes |-> 1..Len(g.nodes),
     edges |-> [e \in 1..Len(g.edges) |-> <<g.edges[e].source, g.edges[e].target>>]]

(* What the read accessors show of the structure. *)
Neighbourhoods(g) ==
    [outgoing |-> [n \in 1..Len(g.nodes) |-> outgoing_edges(g, n)],
     incoming |-> [n \in 1..Len(g.nodes) |-> incoming_edges(g, n)],
     roots |-> root_nodes(g)]

(* The last call was op and it returned. *)
Called(op) == returned.op = op /\ returned.value # "panic"

(* C17: a pluck_node or pluck_edge call that returns leaves the node and
   edge indices, the source and target of every edge, the outgoing and
   incoming edges of every node, the root nodes and the result-node list as
   they were, and empties the content of the plucked node or edge and of
   nothing else. *)
C17_PluckKeepsTheGraphIntact ==
    [][/\ (Called("pluck_node")' /\ returned' # returned) =>
              /\ Structure(graph') = Structure(graph)
              /\ Neighbourhoods(graph') = Neighbourhoods(graph)
              /\ result_nodes' = result_nodes
              /\ graph'.edges = graph.edges
              /\ graph'.nodes = [graph.nodes EXCEPT ![returned'.arg[1]] = None]
              /\ graph.nodes[returned'.arg[1]] # None
       /\ (Called("pluck_edge")' /\ returned' # returned) =>
              /\ Structure(graph') = Structure(graph)
              /\ Neighbourhoods(graph') = Neighbourhoods(graph)
              /\ result_nodes' = result_nodes
              /\ graph'.nodes = graph.nodes
              /\ graph'.edges = [graph.edges EXCEPT ![returned'.arg[1]].content = None]
              /\ graph.edges[returned'.arg[1]].content # None]_vars

(* The first of two edges was plucked: it is still there, empty, and the
   second edge kept its index. *)
C17_Witness ==
    /\ Called("pluck_edge")
    /\ returned.arg = <<1>>
    /\ Len(graph.edges) = 2
    /\ edge_content(graph, 1) = None
    /\ edge_content(graph, 2) # None
    /\ Len(graph.nodes) = 2
    /\ result_nodes # << >>

(* The nodes that can be reached from the nodes of seen along outgoing
   edges, those of seen included. *)
RECURSIVE ReachableFrom(_, _)
ReachableFrom(g, seen) ==
    IF \A e \in 1..Len(g.edges) : g.edges[e].source \in seen => g.edges[e].target \in seen
    THEN seen
    ELSE ReachableFrom(g, seen \cup {g.edges[e].target :
                                        e \in {x \in 1..Len(g.edges) : g.edges[x].source \in seen}})

(* The graph is as create_node and create_edge calls alone build it: the
   guards all hold a content. *)
NothingPlucked ==
    /\ \A n \in 1..Len(graph.nodes) : graph.nodes[n] # None
    /\ \A e \in 1..Len(graph.edges) : graph.edges[e].content # None

(* C18: on a graph built by create_node, create_edge and add_result_node
   calls, subgraph_contains_result(n) returns, and it returns true exactly
   when a result node can be reached from n along outgoing edges, n itself
   included. *)
C18_SubgraphContainsResult ==
    (returned.op = "subgraph_contains_result" /\ NothingPlucked) =>
        returned.value =
            IF \E node \in ReachableFrom(graph, {returned.arg[1]}) :
                   is_result_node(result_nodes, node)
            THEN "true" ELSE "false"

(* The outgoing edges of the node that hold the given content. *)
OutgoingWith(g, node, content) ==
    {e \in Range(outgoing_edges(g, node)) : edge_content(g, e) = content}

(* C19: in every graph reached through create_node, create_edge, pluck_edge
   and remove_edge, an If node has exactly one outgoing Then edge and at
   most one outgoing Else edge, and every Then or Else edge leaves an If
   node. *)
C19_ThenAndElseOnlyOnIf ==
    (\A n \in 1..Len(graph.nodes) : graph.nodes[n] # None) =>
        /\ \A n \in 1..Len(graph.nodes) :
               node_content(graph, n) = "If" =>
                   /\ Cardinality(OutgoingWith(graph, n, "Then")) = 1
                   /\ Cardinality(OutgoingWith(graph, n, "Else")) <= 1
        /\ \A e \in 1..Len(graph.edges) :
               edge_content(graph, e) \in {"Then", "Else"} =>
                   node_content(graph, edge_source(graph, e)) = "If"

(* The DropForeignKey steps for foreign key k of previous table p. *)
DropForeignKeySteps(p, k) ==
    {i \in 1..Len(steps) :
        /\ steps[i].kind = "DropForeignKey"
        /\ steps[i].table_index = p
        /\ steps[i].foreign_key_index = k}

(* The foreign keys of the previous side of the matched tables t that match
   no foreign key of the next side. *)
UnmatchedPreviousForeignKeys(t) ==
    {k \in 1..Len(previous.tables[t[1]].foreign_keys) :
        \A j \in 1..Len(next.tables[t[2]].foreign_keys) :
            ~foreign_keys_match(flavour,
                                previous.tables[t[1]], previous.tables[t[1]].foreign_keys[k],
                                next.tables[t[2]], next.tables[t[2]].foreign_keys[j])}

(* C20: every foreign key of a dropped table and every foreign key of the
   previous side of a surviving table that matches none of the next side
   has exactly one DropForeignKey step, with or without a constraint name,
   and every DropForeignKey step comes before every DropTable step. *)
C20_EveryDroppedForeignKeyHasItsStep ==
    Diffed =>
        /\ \A p \in UnmatchedPreviousTables :
               ~table_is_ignored(DifferDatabase(previous, next, flavour), previous.tables[p].name) =>
                   \A k \in 1..Len(previous.tables[p].foreign_keys) :
                       Cardinality(DropForeignKeySteps(p, k)) = 1
        /\ \A t \in MatchedTablePositions :
               \A k \in UnmatchedPreviousForeignKeys(t) :
                   Cardinality(DropForeignKeySteps(t[1], k)) = 1
        /\ \A i, j \in 1..Len(steps) :
               (steps[i].kind = "DropForeignKey" /\ steps[j].kind = "DropTable") => i < j

(* The previous tables that the diff drops. *)
DroppedTablePositions ==
    {p \in UnmatchedPreviousTables :
        ~table_is_ignored(DifferDatabase(previous, next, flavour), previous.tables[p].name)}

(* The DropIndex steps for index i of previous table p. *)
DropIndexSteps(p, i) ==
    StepsEqualTo([kind |-> "DropIndex", table_index |-> p, index_index |-> i])

(* C21 as stated: under a flavour that drops the indexes of dropped tables
   every index of every dropped table has a DropIndex step, whether or not a
   table is redefined; under the other flavours no DropIndex step targets a
   dropped table. *)
C21_DroppedTableIndexesDropped ==
    Diffed =>
        \A p \in DroppedTablePositions :
            \A i \in 1..Len(previous.tables[p].indexes) :
                IF flavour.should_drop_indexes_from_dropped_tables
                THEN DropIndexSteps(p, i) # {}
                ELSE DropIndexSteps(p, i) = {}

(* C21 as amended: the indexes of the dropped tables are dropped when the
   flavour asks for it and the result redefines a table; otherwise no
   DropIndex step targets a dropped table. *)
C21_DroppedTableIndexesDroppedOnRedefine ==
    Diffed =>
        \A p \in DroppedTablePositions :
            \A i \in 1..Len(previous.tables[p].indexes) :
                IF /\ flavour.should_drop_indexes_from_dropped_tables
                   /\ "RedefineTables" \in Kinds(steps)
                THEN Cardinality(DropIndexSteps(p, i)) = 1
                ELSE DropIndexSteps(p, i) = {}

(* A dropped table with an index next to a redefined table, on a flavour
   that drops the indexes of dropped tables. *)
C21_Witness ==
    /\ Diffed
    /\ flavour.should_drop_indexes_from_dropped_tables
    /\ "RedefineTables" \in Kinds(steps)
    /\ \E p \in DroppedTablePositions :
           /\ previous.tables[p].indexes # << >>
           /\ DropIndexSteps(p, 1) # {}

(* The indexes of the previous side of the matched tables t that match no
   index of the next side. *)
UnmatchedPreviousIndexes(t) ==
    {i \in 1..Len(previous.tables[t[1]].indexes) :
        \A j \in 1..Len(next.tables[t[2]].indexes) :
            ~indexes_match(previous.tables[t[1]].indexes[i], next.tables[t[2]].indexes[j])}

(* The index covers a foreign key of its table: they constrain the same
   columns. *)
CoversForeignKey(table, i) ==
    \E k \in 1..Len(table.foreign_keys) : table.foreign_keys[k].columns = table.indexes[i].columns

(* The steps of one kind, in the order of the result. *)
StepsOfKind(kind) == SelectSeq(steps, LAMBDA step : step.kind = kind)

(* What the flavour pushed onto drop_indexes and create_indexes in this
   result: it was handed the AlterTable steps of the result. *)
PushedByTheFlavour ==
    push_index_changes_for_column_changes(DifferDatabase(previous, next, flavour),
                                          StepsOfKind("AlterTable"))

(* The DropIndex steps that drop_indexes returned: the DropIndex phase up to
   the steps the flavour pushed behind them. *)
ReturnedByDropIndexes ==
    SubSeq(StepsOfKind("DropIndex"), 1,
           Len(StepsOfKind("DropIndex")) - Len(PushedByTheFlavour.drop_indexes))

(* C22: among the steps of drop_indexes, every index of the previous side of
   a matched table that matches no index of the next side has exactly one
   DropIndex step, and none when the flavour's foreign keys create their
   indexes and the index covers a foreign key of the previous table; no
   DropIndex step occurs twice. *)
C22_DroppedIndexesDroppedOnce ==
    Diffed =>
        /\ \A t \in MatchedTablePositions :
               \A i \in UnmatchedPreviousIndexes(t) :
                   Cardinality({x \in 1..Len(ReturnedByDropIndexes) :
                                   ReturnedByDropIndexes[x] =
                                       [kind |-> "DropIndex", table_index |-> t[1],
                                        index_index |-> i]}) =
                       IF /\ flavour.should_skip_fk_indexes
                          /\ CoversForeignKey(previous.tables[t[1]], i)
                       THEN 0 ELSE 1
        /\ \A x, y \in 1..Len(ReturnedByDropIndexes) :
               ReturnedByDropIndexes[x] = ReturnedByDropIndexes[y] => x = y

(* A matched table loses an index that covers one of its foreign keys, on a
   flavour whose foreign keys create their indexes: no step drops it. *)
C22_Witness ==
    /\ Diffed
    /\ flavour.should_skip_fk_indexes
    /\ \E t \in MatchedTablePositions :
           \E i \in UnmatchedPreviousIndexes(t) :
               /\ CoversForeignKey(previous.tables[t[1]], i)
               /\ DropIndexSteps(t[1], i) = {}

(* The next tables that the diff creates. *)
CreatedTablePositions ==
    {n \in UnmatchedNextTables :
        ~table_is_ignored(DifferDatabase(previous, next, flavour), next.tables[n].name)}

(* The steps of the given kind on next table n. *)
StepsOnNextTable(kind, n) ==
    {x \in 1..Len(steps) : steps[x].kind = kind /\ steps[x].table_index = n}

(* The flavour renders the index inside CREATE TABLE. *)
SkippedForNewTable(index) == flavour.skips_unique_indexes_of_new_tables /\ index.unique

(* C23: when the flavour folds the foreign keys (the indexes) of a created
   table into CreateTable, no AddForeignKey (CreateIndex) step targets a
   created table; when it pushes them, every foreign key of every created
   table has exactly one AddForeignKey step and every index that the
   flavour does not skip has exactly one CreateIndex step, flagged
   caused_by_create_table, and these steps come before those of the matched
   tables. *)
C23_StepsOfCreatedTables ==
    Diffed =>
        \A n \in CreatedTablePositions :
            /\ IF flavour.should_push_foreign_keys_from_created_tables
               THEN \A k \in 1..Len(next.tables[n].foreign_keys) :
                        Cardinality(StepsEqualTo([kind |-> "AddForeignKey", table_index |-> n,
                                                  foreign_key_index |-> k])) = 1
               ELSE StepsOnNextTable("AddForeignKey", n) = {}
            /\ IF flavour.should_create_indexes_from_created_tables
               THEN /\ \A i \in 1..Len(next.tables[n].indexes) :
                           Cardinality({x \in StepsOnNextTable("CreateIndex", n) :
                                           steps[x].index_index = i}) =
                               IF SkippedForNewTable(next.tables[n].indexes[i]) THEN 0 ELSE 1
                    /\ \A x \in StepsOnNextTable("CreateIndex", n) :
                           steps[x].caused_by_create_table
               ELSE StepsOnNextTable("CreateIndex", n) = {}
            /\ \A kind \in {"AddForeignKey", "CreateIndex"} :
                   \A x \in StepsOnNextTable(kind, n), y \in 1..Len(steps) :
                       (steps[y].kind = kind /\ steps[y].table_index \notin CreatedTablePositions)
                           => x < y

(* A created table with a foreign key and an index beside a matched table
   that gains both, on a flavour that pushes the two as steps of their own. *)
C23_Witness ==
    /\ Diffed
    /\ flavour.should_push_foreign_keys_from_created_tables
    /\ flavour.should_create_indexes_from_created_tables
    /\ \E n \in CreatedTablePositions :
           /\ StepsOnNextTable("AddForeignKey", n) # {}
           /\ StepsOnNextTable("CreateIndex", n) # {}
           /\ \E y \in 1..Len(steps) :
                  /\ steps[y].kind = "CreateIndex"
                  /\ steps[y].table_index \notin CreatedTablePositions

(* The CreateIndex steps that create_indexes returned: the CreateIndex phase
   up to the steps the flavour pushed behind them. *)
ReturnedByCreateIndexes ==
    SubSeq(StepsOfKind("CreateIndex"), 1,
           Len(StepsOfKind("CreateIndex")) - Len(PushedByTheFlavour.create_indexes))

(* The indexes of the next side of the matched tables t that some index of
   the previous side matches. *)
MatchedNextIndexes(t) ==
    {j \in 1..Len(next.tables[t[2]].indexes) :
        \E i \in 1..Len(previous.tables[t[1]].indexes) :
            indexes_match(previous.tables[t[1]].indexes[i], next.tables[t[2]].indexes[j])}

(* The names of the columns of the matched tables t whose change of type is
   classified NotCastable. *)
NotCastableColumnNames(t) ==
    {next.tables[t[2]].columns[c[2]].name :
        c \in {c \in MatchedColumnPositions(previous.tables[t[1]], next.tables[t[2]]) :
                  column_type_change(flavour, previous.tables[t[1]].columns[c[1]].family,
                                     next.tables[t[2]].columns[c[2]].family) = "NotCastable"}}

(* C24: among the steps of create_indexes, a matched index of a matched
   table has exactly one CreateIndex step, on the next table, when the
   flavour recreates indexes after a column drop and the next index covers a
   column classified NotCastable, and no CreateIndex step otherwise. *)
C24_IndexesOverRecreatedColumns ==
    Diffed =>
        \A t \in MatchedTablePositions :
            \A j \in MatchedNextIndexes(t) :
                Cardinality({x \in 1..Len(ReturnedByCreateIndexes) :
                                /\ ReturnedByCreateIndexes[x].table_index = t[2]
                                /\ ReturnedByCreateIndexes[x].index_index = j}) =
                    IF /\ flavour.indexes_should_be_recreated_after_column_drop
                       /\ Range(next.tables[t[2]].indexes[j].columns)
                              \cap NotCastableColumnNames(t) # {}
                    THEN 1 ELSE 0

(* A matched index over a column that is dropped and recreated, re-emitted. *)
C24_Witness ==
    /\ Diffed
    /\ flavour.indexes_should_be_recreated_after_column_drop
    /\ \E t \in MatchedTablePositions :
           \E j \in MatchedNextIndexes(t) :
               /\ Range(next.tables[t[2]].indexes[j].columns) \cap NotCastableColumnNames(t) # {}
               /\ StepsEqualTo(CreateIndex(t[2], j)) # {}

(* The column has the enum called enum_name as its type and a default value. *)
EnumDefault(column, enum_name) ==
    column.family = "Enum" /\ column.enum_name = enum_name /\ column.dflt

(* The usages an AlterEnum step of the enum pair (p, n) is to list: the
   columns of the dropped tables and the dropped columns of the matched
   tables with no next column, the matched columns with the next column
   where that one still has the enum as type and a default. *)
ExpectedUsages(p, n) ==
    UNION {
        {<<<<t, c>>, << >>>> :
            c \in {c \in 1..Len(previous.tables[t].columns) :
                      EnumDefault(previous.tables[t].columns[c], previous.enums[p].name)}}
        : t \in DroppedTablePositions}
    \cup UNION {
        {<<<<t[1], c>>, << >>>> :
            c \in {c \in 1..Len(previous.tables[t[1]].columns) :
                      /\ EnumDefault(previous.tables[t[1]].columns[c], previous.enums[p].name)
                      /\ \A d \in 1..Len(next.tables[t[2]].columns) :
                             next.tables[t[2]].columns[d].name
                                 # previous.tables[t[1]].columns[c].name}}
        \cup
        {<<<<t[1], c[1]>>,
           IF EnumDefault(next.tables[t[2]].columns[c[2]], next.enums[n].name)
           THEN <<t[2], c[2]>> ELSE << >>>> :
            c \in {c \in MatchedColumnPositions(previous.tables[t[1]], next.tables[t[2]]) :
                      EnumDefault(previous.tables[t[1]].columns[c[1]], previous.enums[p].name)}}
        : t \in MatchedTablePositions}

(* C25: previous_usages_as_default of every AlterEnum step lists, once each,
   exactly the previous columns that have the altered enum as type and a
   default, with no next column for the columns of dropped tables and for
   dropped columns, and for a matched column with the next column exactly
   when that one has the enum, by its next name, as type and a default. *)
C25_PreviousUsagesAsDefault ==
    Diffed =>
        \A x \in 1..Len(steps) :
            steps[x].kind = "AlterEnum" =>
                /\ Range(steps[x].previous_usages_as_default)
                       = ExpectedUsages(steps[x].index.previous, steps[x].index.next)
                /\ Len(steps[x].previous_usages_as_default)
                       = Cardinality(ExpectedUsages(steps[x].index.previous, steps[x].index.next))

(* An altered enum whose column keeps its default in the next snapshot. *)
C25_Witness ==
    /\ Diffed
    /\ \E x \in 1..Len(steps) :
           /\ steps[x].kind = "AlterEnum"
           /\ \E u \in Range(steps[x].previous_usages_as_default) : u[2] # << >>

(* C26: every AlterTable step has a change list that is not empty, and every
   AlterColumn or DropAndRecreateColumn in it is for a pair of columns that
   differ in some field, with that difference in its changes. *)
C26_NoEmptyChanges ==
    Diffed =>
        \A x \in AlterTableSteps :
            /\ steps[x].changes # << >>
            /\ \A a \in 1..Len(steps[x].changes) :
                   steps[x].changes[a].kind \in {"AlterColumn", "DropAndRecreateColumn"} =>
                       /\ steps[x].changes[a].changes # {}
                       /\ previous.tables[steps[x].table_index.previous]
                              .columns[steps[x].changes[a].column_index.previous]
                          # next.tables[steps[x].table_index.next]
                              .columns[steps[x].changes[a].column_index.next]

(* An AlterTable step beside a matched column pair in which nothing differs:
   the unchanged pair has no change in it. *)
C26_Witness ==
    /\ Diffed
    /\ \E x \in AlterTableSteps :
           \E c \in MatchedColumnPositions(previous.tables[steps[x].table_index.previous],
                                           next.tables[steps[x].table_index.next]) :
               /\ previous.tables[steps[x].table_index.previous].columns[c[1]]
                      = next.tables[steps[x].table_index.next].columns[c[2]]
               /\ ColumnChangesOf(steps[x], c) = {}
               /\ \E a \in 1..Len(steps[x].changes) : steps[x].changes[a].kind = "AlterColumn"

(* C27: the column list of every AddPrimaryKey in an AlterTable step is the
   primary key of that table in the next schema; a table whose next version
   has no primary key gets no AddPrimaryKey, also on the flavours that
   recreate the primary key with a recreated column. *)
C27_AddedPrimaryKeyIsTheNextOne ==
    Diffed =>
        \A x \in AlterTableSteps :
            \A a \in 1..Len(steps[x].changes) :
                steps[x].changes[a].kind = "AddPrimaryKey" =>
                    /\ next.tables[steps[x].table_index.next].primary_key # << >>
                    /\ steps[x].changes[a].columns
                           = next.tables[steps[x].table_index.next].primary_key

(* The positions of the RedefineTables steps of the result. *)
RedefineTablesSteps == {i \in 1..Len(steps) : steps[i].kind = "RedefineTables"}

(* C28: no matched table is the target of an AlterTable step and of an entry
   of the RedefineTables step as well, and a result has at most one
   RedefineTables step, which has at least one entry. *)
C28_AlteredOrRedefined ==
    Diffed =>
        /\ \A x \in AlterTableSteps :
               \A r \in RedefineTablesSteps :
                   \A e \in 1..Len(steps[r].tables) :
                       steps[r].tables[e].table_index # steps[x].table_index
        /\ Cardinality(RedefineTablesSteps) <= 1
        /\ \A r \in RedefineTablesSteps : steps[r].tables # << >>

(* C29: is_direct_child(parent, child) returns true exactly when child has
   an incoming edge and every incoming edge of child comes from parent; it
   returns false for a child without incoming edges and for a node that has
   no edge from parent. *)
C29_IsDirectChild ==
    returned.op = "is_direct_child" =>
        (returned.value
            <=> /\ \E e \in 1..Len(graph.edges) : graph.edges[e].target = returned.arg[2]
                /\ \A e \in 1..Len(graph.edges) :
                       graph.edges[e].target = returned.arg[2]
                           => graph.edges[e].source = returned.arg[1])

(* C30: a call of validate_and_apply that returns an error (relation field,
   list field, invalid argument, dbgenerated with the empty string) leaves
   the default value of the field as it was before the call; the default
   value is set only by a call that returns Ok. *)
C30_ErrorLeavesTheDefault ==
    [][~validated'.result.ok => field'.default_value = field.default_value]_vars

====
